---- MODULE Spec2Model ----
(***************************************************************************)
(* Model of MemoryGraph (v3/@claude-flow/memory/src/memory-graph.ts): the  *)
(* knowledge graph over memory entries, with its reverse index, PageRank   *)
(* cache, community table and staleness flag.                              *)
(*                                                                         *)
(* Encoding.  Ids are 1..NumIds (opaque strings in the source).  Weights,  *)
(* similarity scores and confidences are in tenths (10 is 1.0).  A Map is  *)
(* a function whose DOMAIN is the key set; an edge list is a sequence; a   *)
(* Set<string> is a duplicate-free sequence in insertion order.  Ranks are *)
(* exact rationals <<num, den>> in lowest terms.  An optional field is a   *)
(* sequence of length 0 (absent) or 1 (present).                           *)
(***************************************************************************)
EXTENDS Integers, Sequences, FiniteSets, TLC

VARIABLES
    nodes,          \* Map<string, GraphNode>
    edges,          \* Map<string, GraphEdge[]>
    reverseEdges,   \* Map<string, Set<string>>
    pageRanks,      \* Map<string, number>
    communities,    \* Map<string, string>
    dirty,          \* the staleness flag
    config,         \* Required<MemoryGraphConfig>
    last,           \* the call that returned last: what it returned and emitted
    track,          \* observer of the call sequence addEdge(s,t), addNode(t), addEdge(s,t)
    run,            \* the detectCommunities call in progress: its locals, pass by pass
    pending         \* the buildFromBackend and addSimilarityEdges calls suspended at an await

vars == <<nodes, edges, reverseEdges, pageRanks, communities, dirty, config, last, track, run,
          pending>>

(* ------------------------------ bounds ------------------------------- *)

NumIds == 3
MaxResults == 2

Ids == 1..NumIds

(* ------------------------- generic helpers --------------------------- *)

Range(s) == {s[i] : i \in 1..Len(s)}

Max(a, b) == IF a >= b THEN a ELSE b

Abs(a) == IF a < 0 THEN -a ELSE a

EmptyMap == [k \in {} |-> 0]

MapSet(m, k, v) == [x \in (DOMAIN m) \cup {k} |-> IF x = k THEN v ELSE m[x]]

MapDelete(m, k) == [x \in (DOMAIN m) \ {k} |-> m[x]]

SeqWithout(s, x) == SelectSeq(s, LAMBDA y : y # x)

SetAdd(s, x) == IF x \in Range(s) THEN s ELSE Append(s, x)

SeqsUpTo(S, n) == UNION {[1..k -> S] : k \in 0..n}

HasRepeat(s) == \E i, j \in 1..Len(s) : i # j /\ s[i] = s[j]

(* --------------------------- rationals ------------------------------- *)

RECURSIVE GCD(_, _)
GCD(a, b) == IF b = 0 THEN a ELSE GCD(b, a % b)

Rat(n, d) ==
    LET g == GCD(Abs(n), Abs(d))
        s == IF d < 0 THEN -1 ELSE 1
    IN  <<(s * n) \div g, (s * d) \div g>>

RZero == <<0, 1>>

RAdd(a, b) ==
    LET g == GCD(a[2], b[2])
    IN  Rat(a[1] * (b[2] \div g) + b[1] * (a[2] \div g), a[2] * (b[2] \div g))

RSub(a, b) == RAdd(a, <<-b[1], b[2]>>)

RMul(a, b) ==
    LET x == Rat(a[1], b[2])
        y == Rat(b[1], a[2])
    IN  <<x[1] * y[1], x[2] * y[2]>>

RDivInt(a, n) == RMul(a, <<1, n>>)

RAbs(a) == <<Abs(a[1]), a[2]>>

\* n1/d1 < n2/d2 for non-negative numerators and positive denominators, by
\* integer parts and then the reciprocals of the remainders: no product is
\* formed, so no intermediate value exceeds the operands
RECURSIVE FracLt(_, _, _, _)
FracLt(n1, d1, n2, d2) ==
    IF n1 \div d1 # n2 \div d2 THEN n1 \div d1 < n2 \div d2
    ELSE IF n2 % d2 = 0 THEN FALSE
    ELSE IF n1 % d1 = 0 THEN TRUE
    ELSE FracLt(d2, n2 % d2, d1, n1 % d1)

\* a < b
RLt(a, b) ==
    IF a[1] < 0 /\ b[1] >= 0 THEN TRUE
    ELSE IF a[1] >= 0 /\ b[1] < 0 THEN FALSE
    ELSE IF a[1] < 0 THEN FracLt(-b[1], b[2], -a[1], a[2])
    ELSE FracLt(a[1], a[2], b[1], b[2])

RMax(a, b) == IF RLt(a, b) THEN b ELSE a

RECURSIVE RSum(_, _)
RSum(f, S) ==
    IF S = {} THEN RZero
    ELSE LET x == CHOOSE y \in S : TRUE IN RAdd(f[x], RSum(f, S \ {x}))

\* the members of a finite set of ids in ascending order
RECURSIVE Ascending(_)
Ascending(S) ==
    IF S = {} THEN <<>>
    ELSE LET m == CHOOSE x \in S : \A y \in S : x <= y
         IN  <<m>> \o Ascending(S \ {m})

(* ------------------------------ types -------------------------------- *)

EdgeType == {"reference", "similar", "temporal", "co-accessed", "causal"}

DEFAULT_CONFIG ==
    [similarityThreshold |-> 8,
     pageRankDamping     |-> <<17, 20>>,
     pageRankIterations  |-> 50,
     pageRankConvergence |-> <<1, 1000000>>,
     maxNodes            |-> 5000]

DefaultWeight == 10

Graph ==
    [nodes |-> nodes, edges |-> edges, reverseEdges |-> reverseEdges,
     pageRanks |-> pageRanks, communities |-> communities, dirty |-> dirty]

(* --------------------------- graph store ----------------------------- *)

\* MemoryGraph.hasEdge
hasEdge(g, sourceId, targetId) ==
    /\ sourceId \in DOMAIN g.edges
    /\ \E i \in 1..Len(g.edges[sourceId]) : g.edges[sourceId][i].targetId = targetId

\* The node record addNode stores: `x || default` takes the default for every
\* falsy x (absent, "" and 0 alike).
NodeOf(entry) ==
    [id         |-> entry.id,
     category   |-> IF entry.metadata.category = <<>> \/ entry.metadata.category[1] = ""
                    THEN "general" ELSE entry.metadata.category[1],
     confidence |-> IF entry.metadata.confidence = <<>> \/ entry.metadata.confidence[1] = 0
                    THEN 5 ELSE entry.metadata.confidence[1],
     accessCount |-> entry.accessCount,
     createdAt   |-> entry.createdAt]

\* addNode without the capacity check
addNode_NoCap(g, cfg, entry) ==
    [g EXCEPT
       !.nodes = MapSet(g.nodes, entry.id, NodeOf(entry)),
       !.edges = IF entry.id \in DOMAIN g.edges THEN g.edges
                 ELSE MapSet(g.edges, entry.id, <<>>),
       !.reverseEdges = IF entry.id \in DOMAIN g.reverseEdges THEN g.reverseEdges
                        ELSE MapSet(g.reverseEdges, entry.id, <<>>),
       !.dirty = TRUE]

\* addNode marking the graph stale before the capacity check
addNode_DirtyAtCapacity(g, cfg, entry) ==
    IF Cardinality(DOMAIN g.nodes) >= cfg.maxNodes /\ entry.id \notin DOMAIN g.nodes
    THEN [g EXCEPT !.dirty = TRUE]
    ELSE addNode_NoCap(g, cfg, entry)

\* addNode that sets the node's edge list and reverse set to empty whether
\* they exist or not
addNode_ResetsAdjacency(g, cfg, entry) ==
    IF Cardinality(DOMAIN g.nodes) >= cfg.maxNodes /\ entry.id \notin DOMAIN g.nodes
    THEN g
    ELSE [g EXCEPT
            !.nodes = MapSet(g.nodes, entry.id, NodeOf(entry)),
            !.edges = MapSet(g.edges, entry.id, <<>>),
            !.reverseEdges = MapSet(g.reverseEdges, entry.id, <<>>),
            !.dirty = TRUE]

\* MemoryGraph.addNode
addNode(g, cfg, entry) ==
    IF Cardinality(DOMAIN g.nodes) >= cfg.maxNodes /\ entry.id \notin DOMAIN g.nodes
    THEN g
    ELSE [g EXCEPT
            !.nodes = MapSet(g.nodes, entry.id, NodeOf(entry)),
            !.edges = IF entry.id \in DOMAIN g.edges THEN g.edges
                      ELSE MapSet(g.edges, entry.id, <<>>),
            !.reverseEdges = IF entry.id \in DOMAIN g.reverseEdges THEN g.reverseEdges
                             ELSE MapSet(g.reverseEdges, entry.id, <<>>),
            !.dirty = TRUE]

\* the body of addEdge after its endpoint check, with the choices a slip could
\* change: push without looking for an existing edge, overwrite the type,
\* overwrite the weight, skip the reverse index
AddEdgeBody(g, sourceId, targetId, type, weight, alwaysPush, newType, newWeight, noReverse) ==
    LET edgeList == IF sourceId \in DOMAIN g.edges THEN g.edges[sourceId] ELSE <<>>
        found    == {i \in 1..Len(edgeList) : edgeList[i].targetId = targetId}
        newList  ==
            IF found # {} /\ ~alwaysPush
            THEN LET i == CHOOSE j \in found : \A k \in found : j <= k
                 IN  [edgeList EXCEPT
                        ![i].weight = IF newWeight THEN weight
                                      ELSE Max(edgeList[i].weight, weight),
                        ![i].type = IF newType THEN type ELSE edgeList[i].type]
            ELSE Append(edgeList, [targetId |-> targetId, type |-> type, weight |-> weight])
        revSet   == IF targetId \in DOMAIN g.reverseEdges
                    THEN g.reverseEdges[targetId] ELSE <<>>
    IN  [g EXCEPT
           !.edges = MapSet(g.edges, sourceId, newList),
           !.reverseEdges = IF noReverse THEN g.reverseEdges
                            ELSE MapSet(g.reverseEdges, targetId, SetAdd(revSet, sourceId)),
           !.dirty = TRUE]

\* addEdge checking only that the source is a node
addEdge_SourceOnly(g, sourceId, targetId, type, weight) ==
    IF sourceId \notin DOMAIN g.nodes THEN g
    ELSE AddEdgeBody(g, sourceId, targetId, type, weight, FALSE, FALSE, FALSE, FALSE)

\* addEdge marking the graph stale before the endpoint check
addEdge_DirtyFirst(g, sourceId, targetId, type, weight) ==
    IF sourceId \notin DOMAIN g.nodes \/ targetId \notin DOMAIN g.nodes
    THEN [g EXCEPT !.dirty = TRUE]
    ELSE AddEdgeBody(g, sourceId, targetId, type, weight, FALSE, FALSE, FALSE, FALSE)

\* addEdge pushing a new edge without looking for an existing one
addEdge_AlwaysPush(g, sourceId, targetId, type, weight) ==
    IF sourceId \notin DOMAIN g.nodes \/ targetId \notin DOMAIN g.nodes THEN g
    ELSE AddEdgeBody(g, sourceId, targetId, type, weight, TRUE, FALSE, FALSE, FALSE)

\* addEdge overwriting the stored weight instead of taking the maximum
addEdge_LastWeight(g, sourceId, targetId, type, weight) ==
    IF sourceId \notin DOMAIN g.nodes \/ targetId \notin DOMAIN g.nodes THEN g
    ELSE AddEdgeBody(g, sourceId, targetId, type, weight, FALSE, FALSE, TRUE, FALSE)

\* addEdge leaving the reverse index alone
addEdge_NoReverse(g, sourceId, targetId, type, weight) ==
    IF sourceId \notin DOMAIN g.nodes \/ targetId \notin DOMAIN g.nodes THEN g
    ELSE AddEdgeBody(g, sourceId, targetId, type, weight, FALSE, FALSE, FALSE, TRUE)

\* MemoryGraph.addEdge
addEdge(g, sourceId, targetId, type, weight) ==
    IF sourceId \notin DOMAIN g.nodes \/ targetId \notin DOMAIN g.nodes
    THEN g
    ELSE
      LET edgeList == IF sourceId \in DOMAIN g.edges THEN g.edges[sourceId] ELSE <<>>
          found    == {i \in 1..Len(edgeList) : edgeList[i].targetId = targetId}
          newList  ==
              IF found # {}
              THEN LET i == CHOOSE j \in found : \A k \in found : j <= k
                   IN  [edgeList EXCEPT ![i].weight = Max(edgeList[i].weight, weight)]
              ELSE Append(edgeList, [targetId |-> targetId, type |-> type, weight |-> weight])
          revSet   == IF targetId \in DOMAIN g.reverseEdges
                      THEN g.reverseEdges[targetId] ELSE <<>>
      IN  [g EXCEPT
             !.edges = MapSet(g.edges, sourceId, newList),
             !.reverseEdges = MapSet(g.reverseEdges, targetId, SetAdd(revSet, sourceId)),
             !.dirty = TRUE]

\* the cascade of removeNode after its guard, with the steps a slip could skip:
\* the purge of id from its targets' reverse sets, the filter of the edges
\* pointing to id
RemoveNodeBody(g, id, keepReverse, keepIncoming) ==
    LET outgoing == IF id \in DOMAIN g.edges THEN g.edges[id] ELSE <<>>
        targets  == {outgoing[i].targetId : i \in 1..Len(outgoing)}
        rev1     == [k \in DOMAIN g.reverseEdges |->
                       IF k \in targets /\ ~keepReverse
                       THEN SeqWithout(g.reverseEdges[k], id)
                       ELSE g.reverseEdges[k]]
        edges1   == MapDelete(g.edges, id)
        incoming == IF id \in DOMAIN rev1 THEN Range(rev1[id]) ELSE {}
        edges2   == [k \in DOMAIN edges1 |->
                       IF k \in incoming /\ ~keepIncoming
                       THEN SelectSeq(edges1[k], LAMBDA e : e.targetId # id)
                       ELSE edges1[k]]
    IN  [nodes        |-> MapDelete(g.nodes, id),
         edges        |-> edges2,
         reverseEdges |-> MapDelete(rev1, id),
         pageRanks    |-> MapDelete(g.pageRanks, id),
         communities  |-> MapDelete(g.communities, id),
         dirty        |-> TRUE]

\* removeNode leaving the edges that point to the removed node
removeNode_KeepIncoming(g, id) ==
    IF id \notin DOMAIN g.nodes THEN g ELSE RemoveNodeBody(g, id, FALSE, TRUE)

\* removeNode leaving the removed node in its targets' reverse sets
removeNode_KeepReverse(g, id) ==
    IF id \notin DOMAIN g.nodes THEN g ELSE RemoveNodeBody(g, id, TRUE, FALSE)

\* removeNode that leaves the staleness flag as it was
removeNode_KeepFlag(g, id) ==
    IF id \notin DOMAIN g.nodes THEN g
    ELSE [RemoveNodeBody(g, id, FALSE, FALSE) EXCEPT !.dirty = g.dirty]

\* removeNode without its guard
removeNode_NoGuard(g, id) == RemoveNodeBody(g, id, FALSE, FALSE)

\* removeNode that leaves the removed node's rank and community label
removeNode_KeepCaches(g, id) ==
    IF id \notin DOMAIN g.nodes THEN g
    ELSE [RemoveNodeBody(g, id, FALSE, FALSE) EXCEPT !.pageRanks = g.pageRanks,
                                                    !.communities = g.communities]

\* removeNode that also drops the entries of the nodes labelled with the
\* removed id
removeNode_PurgesLabel(g, id) ==
    IF id \notin DOMAIN g.nodes THEN g
    ELSE LET h == RemoveNodeBody(g, id, FALSE, FALSE)
         IN  [h EXCEPT !.communities =
                 [k \in {n \in DOMAIN h.communities : h.communities[n] # id} |->
                     h.communities[k]]]

\* MemoryGraph.removeNode
removeNode(g, id) ==
    IF id \notin DOMAIN g.nodes
    THEN g
    ELSE
      LET outgoing == IF id \in DOMAIN g.edges THEN g.edges[id] ELSE <<>>
          targets  == {outgoing[i].targetId : i \in 1..Len(outgoing)}
          \* remove outgoing edges and their reverse entries
          rev1     == [k \in DOMAIN g.reverseEdges |->
                         IF k \in targets THEN SeqWithout(g.reverseEdges[k], id)
                         ELSE g.reverseEdges[k]]
          edges1   == MapDelete(g.edges, id)
          \* remove incoming edges pointing to this node
          incoming == IF id \in DOMAIN rev1 THEN Range(rev1[id]) ELSE {}
          edges2   == [k \in DOMAIN edges1 |->
                         IF k \in incoming
                         THEN SelectSeq(edges1[k], LAMBDA e : e.targetId # id)
                         ELSE edges1[k]]
      IN  [nodes        |-> MapDelete(g.nodes, id),
           edges        |-> edges2,
           reverseEdges |-> MapDelete(rev1, id),
           pageRanks    |-> MapDelete(g.pageRanks, id),
           communities  |-> MapDelete(g.communities, id),
           dirty        |-> TRUE]

\* First pass of buildFromBackend: one addNode per fetched entry, in order.
RECURSIVE AddNodes(_, _, _)
AddNodes(g, cfg, entries) ==
    IF entries = <<>> THEN g
    ELSE AddNodes(addNode(g, cfg, Head(entries)), cfg, Tail(entries))

\* Inner loop of the second pass: one reference edge per listed id, in order.
RECURSIVE AddRefs(_, _, _)
AddRefs(g, id, refs) ==
    IF refs = <<>> THEN g
    ELSE AddRefs(addEdge(g, id, Head(refs), "reference", DefaultWeight), id, Tail(refs))

\* Second pass of buildFromBackend.
RECURSIVE AddRefEdges(_, _)
AddRefEdges(g, entries) ==
    IF entries = <<>> THEN g
    ELSE AddRefEdges(AddRefs(g, Head(entries).id, Head(entries).references), Tail(entries))

\* one pass: each entry's node, then at once its reference edges
RECURSIVE AddNodesWithRefs(_, _, _)
AddNodesWithRefs(g, cfg, entries) ==
    IF entries = <<>> THEN g
    ELSE AddNodesWithRefs(AddRefs(addNode(g, cfg, Head(entries)),
                                  Head(entries).id, Head(entries).references),
                          cfg, Tail(entries))

buildFromBackend_OnePass(g, cfg, entries) ==
    [AddNodesWithRefs(g, cfg, entries) EXCEPT !.dirty = TRUE]

\* buildFromBackend that gives control back after its node pass
buildFromBackend_NodesOnly(g, cfg, entries) ==
    [AddNodes(g, cfg, entries) EXCEPT !.dirty = TRUE]

\* MemoryGraph.buildFromBackend, given the entries the awaited query resolved to.
buildFromBackend(g, cfg, entries) ==
    [AddRefEdges(AddNodes(g, cfg, entries), entries) EXCEPT !.dirty = TRUE]

\* the loop without the comparison of the score with the threshold
RECURSIVE SimLoop_NoThreshold(_, _, _, _, _)
SimLoop_NoThreshold(g, cfg, entryId, results, added) ==
    IF results = <<>> THEN <<g, added>>
    ELSE
      LET result == Head(results)
      IN  IF result.id = entryId
          THEN SimLoop_NoThreshold(g, cfg, entryId, Tail(results), added)
          ELSE LET hadEdge == hasEdge(g, entryId, result.id)
               IN  SimLoop_NoThreshold(addEdge(g, entryId, result.id, "similar", result.score),
                                       cfg, entryId, Tail(results),
                                       IF hadEdge THEN added ELSE added + 1)

\* The loop of addSimilarityEdges over the search results: <<graph, added>>.
RECURSIVE SimLoop(_, _, _, _, _)
SimLoop(g, cfg, entryId, results, added) ==
    IF results = <<>> THEN <<g, added>>
    ELSE
      LET result == Head(results)
      IN  IF result.id = entryId
          THEN SimLoop(g, cfg, entryId, Tail(results), added)
          ELSE IF result.score >= cfg.similarityThreshold
          THEN LET hadEdge == hasEdge(g, entryId, result.id)
               IN  SimLoop(addEdge(g, entryId, result.id, "similar", result.score),
                           cfg, entryId, Tail(results),
                           IF hadEdge THEN added ELSE added + 1)
          ELSE SimLoop(g, cfg, entryId, Tail(results), added)

\* addSimilarityEdges that searches for an entry without embedding as well
addSimilarityEdges_NoEmbeddingCheck(g, cfg, entryId, got, results) ==
    IF got = <<>>
    THEN <<g, 0, FALSE>>
    ELSE LET r == SimLoop(g, cfg, entryId, results, 0) IN <<r[1], r[2], TRUE>>

\* MemoryGraph.addSimilarityEdges, given what the awaited get and search
\* resolved to: got is <<>> (no entry) or <<entry>>; results is what the
\* search resolves to if it is made.  <<graph, added, whether backend.search
\* was called>>
addSimilarityEdges(g, cfg, entryId, got, results) ==
    IF got = <<>> \/ ~got[1].embedding
    THEN <<g, 0, FALSE>>
    ELSE LET r == SimLoop(g, cfg, entryId, results, 0) IN <<r[1], r[2], TRUE>>

(* ----------------------------- PageRank ------------------------------ *)

\* `map.get(k) || 0` on a rank table
RankOr0(pr, k) == IF k \in DOMAIN pr THEN pr[k] ELSE RZero

\* out-degree taken as the summed weight of the edges, in units of 1.0
OutDegree_Weighted(g, sourceId) ==
    LET l == IF sourceId \in DOMAIN g.edges THEN g.edges[sourceId] ELSE <<>>
        W[i \in 0..Len(l)] == IF i = 0 THEN 0 ELSE W[i - 1] + l[i].weight
    IN  IF W[Len(l)] \div 10 > 0 THEN W[Len(l)] \div 10 ELSE 1

\* `this.edges.get(sourceId)?.length || 1`
OutDegree(g, sourceId) ==
    IF sourceId \in DOMAIN g.edges /\ Len(g.edges[sourceId]) > 0
    THEN Len(g.edges[sourceId]) ELSE 1

\* no node counts as dangling
DanglingNodes_None(g) == {}

\* nodes with no outgoing edges
DanglingNodes(g) ==
    {n \in DOMAIN g.nodes : n \notin DOMAIN g.edges \/ Len(g.edges[n]) = 0}

\* sum over the recorded sources of nodeId of rank(source) / outDegree(source)
RECURSIVE IncomingSum(_, _, _)
IncomingSum(g, pr, sources) ==
    IF sources = <<>> THEN RZero
    ELSE RAdd(RDivInt(RankOr0(pr, Head(sources)), OutDegree(g, Head(sources))),
              IncomingSum(g, pr, Tail(sources)))

\* NewRanks that hands every node the whole dangling mass, not its N-th part
NewRanks_DanglingUndivided(g, cfg, pr) ==
    LET N  == Cardinality(DOMAIN g.nodes)
        d  == cfg.pageRankDamping
        danglingSum == RSum([n \in DanglingNodes(g) |-> RankOr0(pr, n)], DanglingNodes(g))
    IN  [nodeId \in DOMAIN g.nodes |->
           LET sum == IF nodeId \in DOMAIN g.reverseEdges
                      THEN IncomingSum(g, pr, g.reverseEdges[nodeId]) ELSE RZero
           IN  RAdd(RDivInt(RSub(<<1, 1>>, d), N),
                    RMul(d, RAdd(sum, danglingSum)))]

\* NewRanks whose teleport term is (1 - d) times the node's old rank
NewRanks_TeleportByRank(g, cfg, pr) ==
    LET N  == Cardinality(DOMAIN g.nodes)
        d  == cfg.pageRankDamping
        danglingSum == RSum([n \in DanglingNodes(g) |-> RankOr0(pr, n)], DanglingNodes(g))
    IN  [nodeId \in DOMAIN g.nodes |->
           LET sum == IF nodeId \in DOMAIN g.reverseEdges
                      THEN IncomingSum(g, pr, g.reverseEdges[nodeId]) ELSE RZero
           IN  RAdd(RMul(RSub(<<1, 1>>, d), RankOr0(pr, nodeId)),
                    RMul(d, RAdd(sum, RDivInt(danglingSum, N))))]

\* NewRanks that writes each new rank into the table it reads from, node by
\* node in ascending order
NewRanks_InPlace(g, cfg, pr) ==
    LET N   == Cardinality(DOMAIN g.nodes)
        d   == cfg.pageRankDamping
        ids == Ascending(DOMAIN g.nodes)
        danglingSum == RSum([n \in DanglingNodes(g) |-> RankOr0(pr, n)], DanglingNodes(g))
        T[i \in 0..Len(ids)] ==
            IF i = 0 THEN pr
            ELSE LET sum == IF ids[i] \in DOMAIN g.reverseEdges
                            THEN IncomingSum(g, T[i - 1], g.reverseEdges[ids[i]]) ELSE RZero
                 IN  [T[i - 1] EXCEPT ![ids[i]] =
                         RAdd(RDivInt(RSub(<<1, 1>>, d), N),
                              RMul(d, RAdd(sum, RDivInt(danglingSum, N))))]
    IN  [nodeId \in DOMAIN g.nodes |-> T[Len(ids)][nodeId]]

\* one pass of the power iteration: the new table, computed from pr only
NewRanks(g, cfg, pr) ==
    LET N  == Cardinality(DOMAIN g.nodes)
        d  == cfg.pageRankDamping
        danglingSum == RSum([n \in DanglingNodes(g) |-> RankOr0(pr, n)], DanglingNodes(g))
    IN  [nodeId \in DOMAIN g.nodes |->
           LET sum == IF nodeId \in DOMAIN g.reverseEdges
                      THEN IncomingSum(g, pr, g.reverseEdges[nodeId]) ELSE RZero
           IN  RAdd(RDivInt(RSub(<<1, 1>>, d), N),
                    RMul(d, RAdd(sum, RDivInt(danglingSum, N))))]

\* maximum absolute change between two tables over the nodes
RECURSIVE MaxDelta(_, _, _)
MaxDelta(new, old, S) ==
    IF S = {} THEN RZero
    ELSE LET x == CHOOSE y \in S : TRUE
         IN  RMax(RAbs(RSub(new[x], RankOr0(old, x))), MaxDelta(new, old, S \ {x}))

\* the loop without its `break`: it always runs to the cap
RECURSIVE PageRankLoop_NoBreak(_, _, _, _, _)
PageRankLoop_NoBreak(g, cfg, pr, iter, iterations) ==
    IF iter >= cfg.pageRankIterations THEN <<pr, iterations>>
    ELSE PageRankLoop_NoBreak(g, cfg, NewRanks(g, cfg, pr), iter + 1, iter + 1)

\* the loop `for (iter = 0; iter < pageRankIterations; iter++)`, entered with
\* table pr at pass iter: <<final table, iterations performed>>
RECURSIVE PageRankLoop(_, _, _, _, _)
PageRankLoop(g, cfg, pr, iter, iterations) ==
    IF iter >= cfg.pageRankIterations THEN <<pr, iterations>>
    ELSE LET new == NewRanks(g, cfg, pr)
         IN  IF RLt(MaxDelta(new, pr, DOMAIN g.nodes), cfg.pageRankConvergence)
             THEN <<new, iter + 1>>
             ELSE PageRankLoop(g, cfg, new, iter + 1, iter + 1)

\* computePageRank that returns at once on the empty graph without clearing
\* the staleness flag
computePageRank_EmptyStaysStale(g, cfg) ==
    LET N == Cardinality(DOMAIN g.nodes)
    IN  IF N = 0
        THEN [g |-> g, ret |-> EmptyMap, iterations |-> 0]
        ELSE LET init == [k \in (DOMAIN g.pageRanks) \cup (DOMAIN g.nodes) |->
                            IF k \in DOMAIN g.nodes THEN Rat(1, N) ELSE g.pageRanks[k]]
                 res  == PageRankLoop(g, cfg, init, 0, 0)
             IN  [g |-> [g EXCEPT !.pageRanks = res[1], !.dirty = FALSE],
                  ret |-> res[1], iterations |-> res[2]]

\* MemoryGraph.computePageRank: [g: the graph after, ret: the returned table,
\* iterations: the count carried by pagerank:computed]
computePageRank(g, cfg) ==
    LET N == Cardinality(DOMAIN g.nodes)
    IN  IF N = 0
        THEN [g |-> [g EXCEPT !.dirty = FALSE], ret |-> EmptyMap, iterations |-> 0]
        ELSE LET init == [k \in (DOMAIN g.pageRanks) \cup (DOMAIN g.nodes) |->
                            IF k \in DOMAIN g.nodes THEN Rat(1, N) ELSE g.pageRanks[k]]
                 res  == PageRankLoop(g, cfg, init, 0, 0)
             IN  [g |-> [g EXCEPT !.pageRanks = res[1], !.dirty = FALSE],
                  ret |-> res[1], iterations |-> res[2]]

(* ------------------------ community detection ------------------------ *)

MaxPasses == 20

\* labelCounts.set(lbl, (labelCounts.get(lbl) || 0) + amount): a Map in
\* insertion order, as a sequence of <<label, count>>
TallyAdd(tally, lbl, amount) ==
    IF \E i \in 1..Len(tally) : tally[i][1] = lbl
    THEN [i \in 1..Len(tally) |->
            IF tally[i][1] = lbl THEN <<lbl, tally[i][2] + amount>> ELSE tally[i]]
    ELSE Append(tally, <<lbl, amount>>)

RECURSIVE TallyOut(_, _, _)
TallyOut(tally, labels, edgeList) ==
    IF edgeList = <<>> THEN tally
    ELSE LET edge == Head(edgeList)
         IN  TallyOut(IF edge.targetId \in DOMAIN labels
                      THEN TallyAdd(tally, labels[edge.targetId], edge.weight)
                      ELSE tally,
                      labels, Tail(edgeList))

\* each recorded incoming source counts 1 (10 tenths), whatever its edge's weight
RECURSIVE TallyIn(_, _, _)
TallyIn(tally, labels, sources) ==
    IF sources = <<>> THEN tally
    ELSE TallyIn(IF Head(sources) \in DOMAIN labels
                 THEN TallyAdd(tally, labels[Head(sources)], 10)
                 ELSE tally,
                 labels, Tail(sources))

\* the scan with `>=`: among equal counts the label inserted last wins
RECURSIVE BestLabel_LastWins(_, _, _)
BestLabel_LastWins(tally, maxLabel, maxCount) ==
    IF tally = <<>> THEN maxLabel
    ELSE IF Head(tally)[2] >= maxCount
         THEN BestLabel_LastWins(Tail(tally), Head(tally)[1], Head(tally)[2])
         ELSE BestLabel_LastWins(Tail(tally), maxLabel, maxCount)

\* the scan `if (count > maxCount)`: <<maxLabel, maxCount>>
RECURSIVE BestLabel(_, _, _)
BestLabel(tally, maxLabel, maxCount) ==
    IF tally = <<>> THEN maxLabel
    ELSE IF Head(tally)[2] > maxCount
         THEN BestLabel(Tail(tally), Head(tally)[1], Head(tally)[2])
         ELSE BestLabel(Tail(tally), maxLabel, maxCount)

\* the scan started from no label (0) and run whether or not any neighbour
\* was tallied
NewLabel_Unguarded(g, labels, nodeId) ==
    LET t1 == TallyOut(<<>>, labels,
                       IF nodeId \in DOMAIN g.edges THEN g.edges[nodeId] ELSE <<>>)
        labelCounts == TallyIn(t1, labels,
                       IF nodeId \in DOMAIN g.reverseEdges
                       THEN g.reverseEdges[nodeId] ELSE <<>>)
    IN  BestLabel(labelCounts, 0, 0)

\* the body tallying the label of every node of the graph, neighbour or not
NewLabel_AllNodes(g, labels, nodeId) ==
    BestLabel(TallyIn(<<>>, labels, Ascending(DOMAIN g.nodes)), labels[nodeId], 0)

\* the body of `for (const nodeId of nodeIds)`: the label nodeId gets
NewLabel(g, labels, nodeId) ==
    LET t1 == TallyOut(<<>>, labels,
                       IF nodeId \in DOMAIN g.edges THEN g.edges[nodeId] ELSE <<>>)
        labelCounts == TallyIn(t1, labels,
                       IF nodeId \in DOMAIN g.reverseEdges
                       THEN g.reverseEdges[nodeId] ELSE <<>>)
    IN  IF Len(labelCounts) > 0
        THEN BestLabel(labelCounts, labels[nodeId], 0)
        ELSE labels[nodeId]

\* one pass over the nodes in the given visit order, updating labels in place
RECURSIVE Pass(_, _, _, _)
Pass(g, labels, order, changed) ==
    IF order = <<>> THEN [labels |-> labels, changed |-> changed]
    ELSE LET nodeId == Head(order)
             lbl    == NewLabel(g, labels, nodeId)
         IN  Pass(g, [labels EXCEPT ![nodeId] = lbl], Tail(order),
                  changed \/ lbl # labels[nodeId])

\* every order shuffleArray can return: the permutations of the node ids
VisitOrders(S) ==
    {p \in [1..Cardinality(S) -> S] : \A i, j \in 1..Cardinality(S) : p[i] = p[j] => i = j}

\* the loop `for (iter = 0; iter < 20; iter++)` over every choice of the visit
\* orders: running holds the label tables with which pass iter may start; the
\* result is the set of [labels, passes] the loop can end with
RECURSIVE PassLoop(_, _, _)
PassLoop(g, running, iter) ==
    IF running = {} THEN {}
    ELSE IF iter >= MaxPasses THEN {[labels |-> l, passes |-> iter] : l \in running}
    ELSE LET results == {Pass(g, l, p, FALSE) : l \in running, p \in VisitOrders(DOMAIN g.nodes)}
         IN  {[labels |-> r.labels, passes |-> iter + 1] : r \in {x \in results : ~x.changed}}
             \cup PassLoop(g, {r.labels : r \in {x \in results : x.changed}}, iter + 1)

\* MemoryGraph.detectCommunities: every [labels, passes] a run can end with
detectCommunities(g) ==
    PassLoop(g, {[n \in DOMAIN g.nodes |-> n]}, 0)

\* new Set(labels.values()).size
CommunityCount(labels) == Cardinality({labels[n] : n \in DOMAIN labels})

(* ------------------------- inputs of the calls ----------------------- *)

\* the configuration the graph is constructed with: the defaults, overridden
\* by the constructor's argument
ModelConfig == [DEFAULT_CONFIG EXCEPT !.maxNodes = 2, !.pageRankIterations = 2]

NoMetadata == [category |-> <<>>, confidence |-> <<>>]

MemoryEntry(id, metadata, references, embedding) ==
    [id |-> id, metadata |-> metadata, accessCount |-> 0, createdAt |-> 0,
     references |-> references, embedding |-> embedding]

NextId(i) == (i % NumIds) + 1

PrevId(i) == ((i + NumIds - 2) % NumIds) + 1

\* reference lists of the backend's entries, by entry id: a repeated id and a
\* forward reference, or a self reference and a backward reference
Stores ==
    {[i \in Ids |-> <<NextId(i), NextId(i)>>],
     [i \in Ids |-> <<i, PrevId(i)>>]}

\* a batch holds up to one entry more than the limit the query asks for
MaxBatch == ModelConfig.maxNodes + 1

\* what backend.query can resolve to: entries of the store in any order, more
\* of them than the requested limit or not
Batches ==
    {[k \in 1..Len(ids) |-> MemoryEntry(ids[k], NoMetadata, store[ids[k]], FALSE)] :
        ids \in {q \in SeqsUpTo(Ids, MaxBatch) : \A i, j \in 1..Len(q) : q[i] = q[j] => i = j},
        store \in Stores}

\* the neighbours a search for entryId can report: the entry itself, the next
\* id above or below the threshold, the previous id above it
Hits(entryId) ==
    {[id |-> entryId, score |-> 9],
     [id |-> NextId(entryId), score |-> 9],
     [id |-> NextId(entryId), score |-> 7],
     [id |-> PrevId(entryId), score |-> 9]}

\* what backend.search can resolve to: neighbours in any order, repeated or not
SearchResults(entryId) == SeqsUpTo(Hits(entryId), MaxResults)

(* ------------------------------ actions ------------------------------ *)

\* the fields of the object after a call (result is evaluated once)
Apply(result) ==
    \E g \in {result} :
        /\ nodes' = g.nodes
        /\ edges' = g.edges
        /\ reverseEdges' = g.reverseEdges
        /\ pageRanks' = g.pageRanks
        /\ communities' = g.communities
        /\ dirty' = g.dirty

Event(name, payload) == [name |-> name, payload |-> payload]

Returned(op, args, ret, events) ==
    last' = [op |-> op, args |-> args, ret |-> ret, events |-> events]

TrackIdle == [phase |-> 0, s |-> 0, t |-> 0]

\* no detectCommunities call is in progress
RunIdle == [pc |-> "idle", labels |-> EmptyMap, passes |-> 0]

\* no buildFromBackend or addSimilarityEdges call is suspended
NoCalls == [build |-> "none", similar |-> "none", entryId |-> 0]

Init ==
    /\ nodes = EmptyMap
    /\ edges = EmptyMap
    /\ reverseEdges = EmptyMap
    /\ pageRanks = EmptyMap
    /\ communities = EmptyMap
    /\ dirty = TRUE
    /\ config = ModelConfig
    /\ last = [op |-> "new", args |-> <<>>, ret |-> <<>>, events |-> <<>>]
    /\ track = TrackIdle
    /\ run = RunIdle
    /\ pending = NoCalls

AddNode(entry) ==
    /\ Apply(addNode(Graph, config, entry))
    /\ Returned("addNode", <<>>, <<>>, <<>>)
    /\ UNCHANGED config

AddEdge(sourceId, targetId, type, weight) ==
    /\ Apply(addEdge(Graph, sourceId, targetId, type, weight))
    /\ Returned("addEdge", <<>>, <<>>, <<>>)
    /\ UNCHANGED config

RemoveNode(id) ==
    /\ Apply(removeNode(Graph, id))
    /\ Returned("removeNode", <<>>, <<>>, <<>>)
    /\ UNCHANGED config

\* the call together with its awaited query; last.args is whether the batch
\* was longer than the limit asked for
BuildFromBackend(entries) ==
    \E g \in {buildFromBackend(Graph, config, entries)} :
        /\ Apply(g)
        /\ Returned("buildFromBackend", <<Len(entries) > config.maxNodes>>, <<>>,
                    <<Event("graph:built", Cardinality(DOMAIN g.nodes))>>)
        /\ UNCHANGED config

\* the call together with its awaited get and search; last.args is whether the
\* search result names a neighbour twice, and whether the search was made
AddSimilarityEdges(entryId, got, results) ==
    \E r \in {addSimilarityEdges(Graph, config, entryId, got, results)} :
        /\ Apply(r[1])
        /\ Returned("addSimilarityEdges",
                    <<HasRepeat([k \in 1..Len(results) |-> results[k].id]), r[3]>>,
                    r[2], <<>>)
        /\ UNCHANGED config

ComputePageRank ==
    \E r \in {computePageRank(Graph, config)} :
        /\ Apply(r.g)
        /\ Returned("computePageRank", <<>>, r.ret,
                    <<Event("pagerank:computed", r.iterations)>>)
        /\ UNCHANGED config

DetectCommunities ==
    \E r \in detectCommunities(Graph) :
        /\ Apply([Graph EXCEPT !.communities = r.labels])
        /\ Returned("detectCommunities", <<>>, r.labels,
                    <<Event("communities:detected", CommunityCount(r.labels))>>)
        /\ UNCHANGED config

(* --------------------------- specifications -------------------------- *)

\* The graph store under every sequence of its five mutating calls.
Next ==
    \/ \E id \in Ids : AddNode(MemoryEntry(id, NoMetadata, <<>>, FALSE)) /\ UNCHANGED <<track, run, pending>>
    \/ \E s, t \in Ids : AddEdge(s, t, "reference", DefaultWeight) /\ UNCHANGED <<track, run, pending>>
    \/ \E id \in Ids : RemoveNode(id) /\ UNCHANGED <<track, run, pending>>
    \/ \E entries \in Batches : BuildFromBackend(entries) /\ UNCHANGED <<track, run, pending>>
    \/ \E id \in Ids : AddSimilarityEdges(id, <<>>, <<>>) /\ UNCHANGED <<track, run, pending>>
    \/ \E id \in Ids :
          AddSimilarityEdges(id, <<MemoryEntry(id, NoMetadata, <<>>, FALSE)>>, <<>>)
          /\ UNCHANGED <<track, run, pending>>
    \/ \E id \in Ids : \E results \in SearchResults(id) :
          AddSimilarityEdges(id, <<MemoryEntry(id, NoMetadata, <<>>, TRUE)>>, results)
          /\ UNCHANGED <<track, run, pending>>

Spec == Init /\ [][Next]_vars

\* The direct calls interleaved with the two computations that fill the caches
\* and clear the staleness flag.
NextCache ==
    \/ \E id \in Ids : AddNode(MemoryEntry(id, NoMetadata, <<>>, FALSE)) /\ UNCHANGED <<track, run, pending>>
    \/ \E s, t \in Ids : AddEdge(s, t, "reference", DefaultWeight) /\ UNCHANGED <<track, run, pending>>
    \/ \E id \in Ids : RemoveNode(id) /\ UNCHANGED <<track, run, pending>>
    \/ ComputePageRank /\ UNCHANGED <<track, run, pending>>
    \/ DetectCommunities /\ UNCHANGED <<track, run, pending>>

SpecCache == Init /\ [][NextCache]_vars

\* The direct calls, with track following the sequence addEdge(s, t) dropped for
\* its missing target (phase 1), addNode(t) (phase 2), addEdge(s, t) (phase 3).
SeqAddEdge(s, t) ==
    /\ AddEdge(s, t, "reference", DefaultWeight)
    /\ track' = IF track.phase = 2 /\ track.s = s /\ track.t = t
                THEN [track EXCEPT !.phase = 3]
                ELSE IF s \in DOMAIN nodes /\ t \notin DOMAIN nodes
                THEN [phase |-> 1, s |-> s, t |-> t]
                ELSE TrackIdle
    /\ UNCHANGED <<run, pending>>

SeqAddNode(id) ==
    /\ AddNode(MemoryEntry(id, NoMetadata, <<>>, FALSE))
    /\ track' = IF track.phase = 1 /\ track.t = id
                THEN [track EXCEPT !.phase = 2]
                ELSE TrackIdle
    /\ UNCHANGED <<run, pending>>

SeqRemoveNode(id) ==
    /\ RemoveNode(id)
    /\ track' = TrackIdle
    /\ UNCHANGED <<run, pending>>

NextSeq ==
    \/ \E s, t \in Ids : SeqAddEdge(s, t)
    \/ \E id \in Ids : SeqAddNode(id)
    \/ \E id \in Ids : SeqRemoveNode(id)

SpecSeq == Init /\ [][NextSeq]_vars

\* The five mutating calls interleaved with computePageRank, which fills the
\* rank cache and clears the staleness flag.  The query resolves to at most
\* one entry and the search to at most one neighbour.
NextStale ==
    \/ \E id \in Ids : AddNode(MemoryEntry(id, NoMetadata, <<>>, FALSE)) /\ UNCHANGED <<track, run, pending>>
    \/ \E s, t \in Ids : AddEdge(s, t, "reference", DefaultWeight) /\ UNCHANGED <<track, run, pending>>
    \/ \E id \in Ids : RemoveNode(id) /\ UNCHANGED <<track, run, pending>>
    \/ \E entries \in {b \in Batches : Len(b) <= 1} :
          BuildFromBackend(entries) /\ UNCHANGED <<track, run, pending>>
    \/ \E id \in Ids : \E results \in SeqsUpTo(Hits(id), 1) :
          AddSimilarityEdges(id, <<MemoryEntry(id, NoMetadata, <<>>, TRUE)>>, results)
          /\ UNCHANGED <<track, run, pending>>
    \/ ComputePageRank /\ UNCHANGED <<track, run, pending>>

SpecStale == Init /\ [][NextStale]_vars

(* ---------------------- graphs given to PageRank --------------------- *)

MaxEdges == 3

\* the members of a finite set of <<source, target>> pairs, by source, then target
RECURSIVE AscendingPairs(_)
AscendingPairs(E) ==
    IF E = {} THEN <<>>
    ELSE LET m == CHOOSE x \in E :
                     \A y \in E : x[1] < y[1] \/ (x[1] = y[1] /\ x[2] <= y[2])
         IN  <<m>> \o AscendingPairs(E \ {m})

\* the object right after construction
NewGraph ==
    [nodes |-> EmptyMap, edges |-> EmptyMap, reverseEdges |-> EmptyMap,
     pageRanks |-> EmptyMap, communities |-> EmptyMap, dirty |-> TRUE]

RECURSIVE AddPairs(_, _)
AddPairs(g, pairs) ==
    IF pairs = <<>> THEN g
    ELSE AddPairs(addEdge(g, Head(pairs)[1], Head(pairs)[2], "reference", DefaultWeight),
                  Tail(pairs))

\* the graph after addNode for every id of S and addEdge for every pair of E
GraphOf(cfg, S, E) ==
    LET ids == Ascending(S)
    IN  AddPairs(AddNodes(NewGraph, cfg,
                          [k \in 1..Len(ids) |-> MemoryEntry(ids[k], NoMetadata, <<>>, FALSE)]),
                 AscendingPairs(E))

\* the first n ids, n up to NumIds, with up to MaxEdges edges among them,
\* self-loops included (ids are opaque: other id sets of the same size give
\* the same graphs under renaming)
ShapesIn ==
    UNION {{<<1..n, E>> : E \in {F \in SUBSET ((1..n) \X (1..n)) : Cardinality(F) <= MaxEdges}} :
              n \in 0..NumIds}

\* the 3-node cycles and the graphs without any edge: the uniform table is
\* their fixed point
Cycle(a, b, c) == <<{a, b, c}, {<<a, b>>, <<b, c>>, <<c, a>>}>>

UniformShapes ==
    {<<S, {}>> : S \in SUBSET Ids}
    \cup {Cycle(t[1], t[2], t[3]) :
            t \in {u \in Ids \X Ids \X Ids : u[1] # u[2] /\ u[2] # u[3] /\ u[1] # u[3]}}

\* configurations PageRank is run with: the iteration cap 0, 1 or 2, the
\* default damping or 0.5, the default convergence threshold or 0.1
RankConfigs ==
    {[DEFAULT_CONFIG EXCEPT !.pageRankIterations = 0],
     [DEFAULT_CONFIG EXCEPT !.pageRankIterations = 1],
     [DEFAULT_CONFIG EXCEPT !.pageRankIterations = 2],
     [DEFAULT_CONFIG EXCEPT !.pageRankIterations = 2, !.pageRankConvergence = <<1, 10>>],
     [DEFAULT_CONFIG EXCEPT !.pageRankIterations = 2, !.pageRankDamping = <<1, 2>>]}

\* the fields of the object are those of g
Loaded(g) ==
    /\ nodes = g.nodes
    /\ edges = g.edges
    /\ reverseEdges = g.reverseEdges
    /\ pageRanks = g.pageRanks
    /\ communities = g.communities
    /\ dirty = g.dirty

\* A graph built by addNode and addEdge calls, under a configuration the
\* rationals can follow, or under the defaults when the uniform table is its
\* fixed point.
InitRank ==
    /\ \/ \E cfg \in RankConfigs, x \in ShapesIn :
             config = cfg /\ Loaded(GraphOf(cfg, x[1], x[2]))
       \/ \E x \in UniformShapes :
             config = DEFAULT_CONFIG /\ Loaded(GraphOf(DEFAULT_CONFIG, x[1], x[2]))
    /\ last = [op |-> "new", args |-> <<>>, ret |-> <<>>, events |-> <<>>]
    /\ track = TrackIdle
    /\ run = RunIdle
    /\ pending = NoCalls

NextRank == ComputePageRank /\ UNCHANGED <<track, run, pending>>

SpecRank == InitRank /\ [][NextRank]_vars

(* ------------------------------ claims ------------------------------- *)

\* the stored edges as <<source, target, type, weight>>
EdgeSet(g) ==
    UNION {{<<s, g.edges[s][i].targetId, g.edges[s][i].type, g.edges[s][i].weight>> :
               i \in 1..Len(g.edges[s])} : s \in DOMAIN g.edges}

\* the first edge of sourceId's list aimed at targetId
EdgeOf(g, sourceId, targetId) ==
    LET l == g.edges[sourceId]
        i == CHOOSE j \in 1..Len(l) :
                 l[j].targetId = targetId /\ \A k \in 1..(j - 1) : l[k].targetId # targetId
    IN  l[i]

\* weights an addEdge call is tried with: below, among and above the stored ones
ProbeWeights == {5, 9, 10, 15}

\* entries an addNode call is tried with
ProbeEntries ==
    {MemoryEntry(id, m, <<>>, FALSE) :
        id \in Ids,
        m \in {NoMetadata, [category |-> <<"core">>, confidence |-> <<9>>]}}

CachesFilled == DOMAIN pageRanks # {} /\ DOMAIN communities # {}

\* C1: every stored edge has its source id and its target id in the node set.
C1_EdgesBetweenNodes ==
    \A s \in DOMAIN edges :
        /\ s \in DOMAIN nodes
        /\ \A i \in 1..Len(edges[s]) : edges[s][i].targetId \in DOMAIN nodes

\* a removeNode has left a node that still carries an edge
C1_Witness ==
    /\ last.op = "removeNode"
    /\ \E n \in DOMAIN nodes : Len(edges[n]) > 0

\* C2: s is in the reverse set of t exactly when the edge list of s holds an
\* edge aimed at t, self-loops included.
C2_ReverseIsInverse ==
    \A s, t \in Ids :
        (t \in DOMAIN reverseEdges /\ s \in Range(reverseEdges[t])) <=> hasEdge(Graph, s, t)

\* a self-loop next to the two edges between two nodes
C2_Witness ==
    \E s, t \in DOMAIN nodes :
        /\ s # t
        /\ hasEdge(Graph, s, s)
        /\ hasEdge(Graph, s, t)
        /\ hasEdge(Graph, t, s)
        /\ s \in Range(reverseEdges[s])

\* C3: no edge list holds two edges aimed at the same target.
C3_OneEdgePerPair ==
    \A s \in DOMAIN edges :
        \A i, j \in 1..Len(edges[s]) :
            edges[s][i].targetId = edges[s][j].targetId => i = j

\* a search result naming a neighbour twice has been processed and added an edge
C3_Witness ==
    /\ last.op = "addSimilarityEdges"
    /\ last.args[1]
    /\ last.ret = 1
    /\ \E s \in DOMAIN nodes : Len(edges[s]) = 1 /\ edges[s][1].type = "similar"

\* C4: addEdge on an existing pair keeps the stored type and stores the maximum
\* of the stored and the given weight, for every type and weight given.
C4_MergeKeepsTypeMaxWeight ==
    \A s, t \in Ids :
        hasEdge(Graph, s, t) =>
            \A ty \in EdgeType, w \in ProbeWeights :
                LET before == EdgeOf(Graph, s, t)
                    g2     == addEdge(Graph, s, t, ty, w)
                    after  == EdgeOf(g2, s, t)
                IN  /\ hasEdge(g2, s, t)
                    /\ Len(g2.edges[s]) = Len(edges[s])
                    /\ after.type = before.type
                    /\ after.weight = Max(before.weight, w)
                    /\ (w <= before.weight => after.weight = before.weight)
                    /\ (w > before.weight => after.weight = w)

\* an addEdge of type reference and weight 1.0 has met an edge of type similar
\* and weight 0.9: the type stayed, the weight rose
C4_Witness ==
    /\ last.op = "addEdge"
    /\ \E s \in DOMAIN nodes :
          /\ Len(edges[s]) = 1
          /\ edges[s][1].type = "similar"
          /\ edges[s][1].weight = DefaultWeight
          /\ \A n \in DOMAIN nodes : n # s => Len(edges[n]) = 0

\* C5: addEdge with a missing endpoint returns the object as it was: nodes,
\* adjacency, reverse index, both caches and the staleness flag.
C5_DroppedEdgeChangesNothing ==
    \A s, t \in Ids :
        (s \notin DOMAIN nodes \/ t \notin DOMAIN nodes) =>
            \A ty \in EdgeType, w \in ProbeWeights : addEdge(Graph, s, t, ty, w) = Graph

\* an addEdge has returned with the staleness flag still clear and both caches
\* filled: it was dropped
C5_Witness ==
    /\ last.op = "addEdge"
    /\ ~dirty
    /\ CachesFilled

\* C6 as stated: after addEdge(s, t) with t missing there is no edge s->t, nor
\* after the addNode(t) that follows, and after the addEdge(s, t) that follows
\* that the edge exists.
C6_Original ==
    /\ track.phase \in {1, 2} => ~hasEdge(Graph, track.s, track.t)
    /\ track.phase = 3 => hasEdge(Graph, track.s, track.t)

\* C6 amended: the same, the edge existing after the second addEdge whenever
\* addNode(t) made t a node, that is, unless the graph was at capacity.
C6_DroppedEdgeNotReplayed ==
    /\ track.phase \in {1, 2} => ~hasEdge(Graph, track.s, track.t)
    /\ (track.phase = 3 /\ track.t \in DOMAIN nodes) => hasEdge(Graph, track.s, track.t)
    /\ (track.phase = 3 /\ track.t \notin DOMAIN nodes) =>
          Cardinality(DOMAIN nodes) = config.maxNodes

\* the three calls have been made and the edge is there
C6_Witness ==
    /\ track.phase = 3
    /\ hasEdge(Graph, track.s, track.t)
    /\ track.s # track.t

\* C7: the node count never exceeds the configured maxNodes.
C7_NodeCountWithinCapacity ==
    Cardinality(DOMAIN nodes) <= config.maxNodes

\* a build whose batch was longer than maxNodes has filled the graph
C7_Witness ==
    /\ last.op = "buildFromBackend"
    /\ last.args[1]
    /\ Cardinality(DOMAIN nodes) = config.maxNodes

\* C8: addNode of a new id at capacity returns the object as it was.
C8_AddNodeAtCapacityChangesNothing ==
    \A entry \in ProbeEntries :
        (Cardinality(DOMAIN nodes) >= config.maxNodes /\ entry.id \notin DOMAIN nodes) =>
            addNode(Graph, config, entry) = Graph

\* an addNode has returned at capacity with the staleness flag still clear
C8_Witness ==
    /\ last.op = "addNode"
    /\ ~dirty
    /\ Cardinality(DOMAIN nodes) = config.maxNodes
    /\ CachesFilled

\* C9: removeNode(X) of a node X leaves the nodes without X and exactly the
\* edges not incident to X, with their types and weights; X is in no edge
\* list, is no key of the reverse index and is in no reverse set.
C9_RemoveNodeCascade ==
    \A X \in DOMAIN nodes :
        LET g2 == removeNode(Graph, X)
        IN  /\ g2.nodes = MapDelete(nodes, X)
            /\ EdgeSet(g2) = {e \in EdgeSet(Graph) : e[1] # X /\ e[2] # X}
            /\ DOMAIN g2.edges = DOMAIN g2.nodes
            /\ \A s \in DOMAIN g2.edges :
                  \A i \in 1..Len(g2.edges[s]) : g2.edges[s][i].targetId # X
            /\ X \notin DOMAIN g2.reverseEdges
            /\ \A k \in DOMAIN g2.reverseEdges : X \notin Range(g2.reverseEdges[k])

\* a removeNode has left one node, whose self-loop it kept
C9_Witness ==
    /\ last.op = "removeNode"
    /\ dirty
    /\ Cardinality(DOMAIN nodes) = 1
    /\ \E n \in DOMAIN nodes : hasEdge(Graph, n, n)

\* C10: removeNode of an id that is no node returns the object as it was.
C10_RemoveAbsentChangesNothing ==
    \A id \in Ids : id \notin DOMAIN nodes => removeNode(Graph, id) = Graph

\* a removeNode has returned with the staleness flag still clear and both
\* caches filled: its id was no node
C10_Witness ==
    /\ last.op = "removeNode"
    /\ ~dirty
    /\ CachesFilled

\* the rank cache is what computePageRank yields for the graph as it is
RanksFresh ==
    /\ DOMAIN pageRanks = DOMAIN nodes
    /\ pageRanks = computePageRank(Graph, config).ret

\* C11: whenever the staleness flag is clear the rank cache has exactly the
\* node ids as keys and the values computePageRank yields for the graph as it
\* is, and no call changes nodes, adjacency or reverse index and leaves the
\* flag clear.
C11_RankCacheCoherent ==
    /\ [](~dirty => RanksFresh)
    /\ [][(nodes' # nodes \/ edges' # edges \/ reverseEdges' # reverseEdges) => dirty']_vars

\* a call that changed nothing has returned after a computePageRank on a
\* graph with an edge: the flag is still clear
C11_Witness ==
    /\ ~dirty
    /\ last.op \in {"addNode", "addEdge", "removeNode", "addSimilarityEdges"}
    /\ \E s, t \in DOMAIN nodes : s # t /\ hasEdge(Graph, s, t)

\* computePageRank has just returned on a graph with at least one node
RankReturned == last.op = "computePageRank" /\ DOMAIN nodes # {}

\* the iteration count carried by the pagerank:computed event
ReportedIterations == last.events[1].payload

\* C12: on every graph with at least one node the table computePageRank
\* returns, and the cache it leaves, sum to 1; the graphs are run under the
\* iteration caps 0, 1 and 2, so this is the sum after every iteration.
C12_RanksSumToOne ==
    RankReturned =>
        /\ RSum(last.ret, DOMAIN last.ret) = <<1, 1>>
        /\ RSum(pageRanks, DOMAIN pageRanks) = <<1, 1>>

\* two iterations have run on a graph with a dangling node, a self-loop and
\* a node apart from the rest
C12_Witness ==
    /\ RankReturned
    /\ ReportedIterations = 2
    /\ Cardinality(DOMAIN nodes) = 3
    /\ \E a, b, c \in DOMAIN nodes :
          /\ a # b /\ b # c /\ a # c
          /\ hasEdge(Graph, a, a) /\ hasEdge(Graph, a, b)
          /\ Len(edges[b]) = 0
          /\ Len(edges[c]) = 0 /\ reverseEdges[c] = <<>>

\* C13: computePageRank on a graph with zero nodes returns an empty table,
\* reports 0 iterations, leaves the rank cache empty and clears the flag.
C13_EmptyGraphPageRank ==
    (last.op = "computePageRank" /\ DOMAIN nodes = {}) =>
        /\ last.ret = EmptyMap
        /\ last.events = <<Event("pagerank:computed", 0)>>
        /\ pageRanks = EmptyMap
        /\ ~dirty

\* computePageRank has returned on the empty graph
C13_Witness ==
    /\ last.op = "computePageRank"
    /\ DOMAIN nodes = {}
    /\ DOMAIN edges = {}
    /\ ~dirty

RECURSIVE RanksAfter(_, _, _)
RanksAfter(g, cfg, k) ==
    IF k = 0 THEN [n \in DOMAIN g.nodes |-> Rat(1, Cardinality(DOMAIN g.nodes))]
    ELSE NewRanks(g, cfg, RanksAfter(g, cfg, k - 1))

\* the k-th iteration changed every rank by less than the threshold
BelowThreshold(g, cfg, k) ==
    RLt(MaxDelta(RanksAfter(g, cfg, k), RanksAfter(g, cfg, k - 1), DOMAIN g.nodes),
        cfg.pageRankConvergence)

\* C15: computePageRank runs at most pageRankIterations iterations; the count
\* it reports is the number it ran (the table returned is the one after that
\* many); no iteration before the last was below the threshold, and it stops
\* short of the cap only after an iteration below the threshold.
C15_PageRankStops ==
    last.op = "computePageRank" =>
        /\ ReportedIterations \in 0..config.pageRankIterations
        /\ (DOMAIN nodes = {} => ReportedIterations = 0)
        /\ (DOMAIN nodes # {} =>
              /\ last.ret = RanksAfter(Graph, config, ReportedIterations)
              /\ \A k \in 1..(ReportedIterations - 1) : ~BelowThreshold(Graph, config, k)
              /\ (ReportedIterations < config.pageRankIterations =>
                    /\ ReportedIterations >= 1
                    /\ BelowThreshold(Graph, config, ReportedIterations)))

\* computePageRank has stopped after one iteration of two allowed, the
\* iteration having moved the ranks by less than the threshold 0.1
C15_Witness ==
    /\ RankReturned
    /\ config.pageRankIterations = 2
    /\ config.pageRankConvergence = <<1, 10>>
    /\ ReportedIterations = 1
    /\ \E n \in DOMAIN nodes : last.ret[n] # Rat(1, Cardinality(DOMAIN nodes))

\* the graph with other types and weights on the same edges: the k-th edge of
\* a list gets the k-th type and weight of the palette, cyclically
HeavyLight == <<[type |-> "causal", weight |-> 30], [type |-> "temporal", weight |-> 5]>>

Palettes == {<<[type |-> "similar", weight |-> 9]>>, HeavyLight}

Relabelled(g, palette) ==
    [g EXCEPT !.edges =
        [s \in DOMAIN g.edges |->
            [i \in 1..Len(g.edges[s]) |->
                [targetId |-> g.edges[s][i].targetId,
                 type     |-> palette[((i - 1) % Len(palette)) + 1].type,
                 weight   |-> palette[((i - 1) % Len(palette)) + 1].weight]]]]

\* C16: graphs with the same nodes and the same (source, target) pairs get
\* the same rank table and iteration count from computePageRank, whatever the
\* types and weights stored on the edges.
C16_RanksIgnoreWeights ==
    last.op = "computePageRank" =>
        \A palette \in Palettes :
            LET r == computePageRank(Relabelled(Graph, palette), config)
            IN  /\ r.ret = last.ret
                /\ r.iterations = ReportedIterations

\* two iterations have run on a graph where one node has two outgoing edges,
\* whose weights differ under the second palette, and ranks are not uniform
C16_Witness ==
    /\ RankReturned
    /\ ReportedIterations = 2
    /\ \E n \in DOMAIN nodes : Len(edges[n]) = 2
    /\ \E n, m \in DOMAIN nodes : last.ret[n] # last.ret[m]

\* the graph is a cycle over exactly three nodes, a->b, b->c, c->a
IsThreeCycle ==
    \E a, b, c \in Ids :
        /\ a # b /\ b # c /\ a # c
        /\ DOMAIN nodes = {a, b, c}
        /\ [n \in {a, b, c} |-> [i \in 1..Len(edges[n]) |-> edges[n][i].targetId]]
              = (a :> <<b>>) @@ (b :> <<c>>) @@ (c :> <<a>>)

\* C17: on the 3-node cycle with the default configuration (damping 0.85,
\* at most 50 iterations) computePageRank stops within the cap with rank 1/3
\* for each node.
C17_CycleRanksEqual ==
    (last.op = "computePageRank" /\ config = DEFAULT_CONFIG /\ IsThreeCycle) =>
        /\ ReportedIterations >= 1
        /\ ReportedIterations <= 50
        /\ \A n \in DOMAIN nodes : last.ret[n] = <<1, 3>> /\ pageRanks[n] = <<1, 3>>

\* computePageRank has returned on a 3-node cycle under the defaults
C17_Witness ==
    /\ last.op = "computePageRank"
    /\ config = DEFAULT_CONFIG
    /\ config.pageRankDamping = <<17, 20>>
    /\ IsThreeCycle
    /\ ~dirty

\* C18: after computePageRank on a graph with N >= 1 nodes every node has
\* rank at least (1 - d) / N, which is above 0 for damping d < 1: dangling
\* nodes and nodes without incoming edges included.
C18_RanksPositive ==
    (RankReturned /\ RLt(config.pageRankDamping, <<1, 1>>)) =>
        LET floor == RDivInt(RSub(<<1, 1>>, config.pageRankDamping), Cardinality(DOMAIN nodes))
        IN  /\ RLt(RZero, floor)
            /\ \A n \in DOMAIN nodes :
                  /\ ~RLt(last.ret[n], floor)
                  /\ RLt(RZero, last.ret[n])
                  /\ pageRanks[n] = last.ret[n]

\* two iterations have run on a graph without dangling nodes where one node
\* has no incoming edge: its rank is exactly (1 - d) / N
C18_Witness ==
    /\ RankReturned
    /\ ReportedIterations = 2
    /\ DanglingNodes(Graph) = {}
    /\ \E n \in DOMAIN nodes :
          /\ reverseEdges[n] = <<>>
          /\ last.ret[n] = RDivInt(RSub(<<1, 1>>, config.pageRankDamping),
                                    Cardinality(DOMAIN nodes))

(* ------------------ detectCommunities, pass by pass ------------------ *)

\* `labels.set(nodeId, nodeId)` for every node: the call, made on the graph
\* as built, has reached its loop
DetectStart ==
    /\ run.pc = "idle"
    /\ last.op = "new"
    /\ run' = [pc |-> "loop", labels |-> [n \in DOMAIN nodes |-> n], passes |-> 0]
    /\ UNCHANGED <<nodes, edges, reverseEdges, pageRanks, communities, dirty, config, last, track,
                   pending>>

\* a turn of the loop without the `break`
DetectPass_NoBreak(order) ==
    /\ run.pc = "loop"
    /\ \E r \in {Pass(Graph, run.labels, order, FALSE)} :
          run' = [pc     |-> IF run.passes + 1 >= MaxPasses THEN "done" ELSE "loop",
                  labels |-> r.labels,
                  passes |-> run.passes + 1]
    /\ UNCHANGED <<nodes, edges, reverseEdges, pageRanks, communities, dirty, config, last, track,
                   pending>>

\* one turn of `for (iter = 0; iter < 20; iter++)` under the order shuffleArray
\* returned: the loop is left by `break` when nothing changed, or by its
\* condition when this was turn 20
DetectPass(order) ==
    /\ run.pc = "loop"
    /\ \E r \in {Pass(Graph, run.labels, order, FALSE)} :
          run' = [pc     |-> IF ~r.changed \/ run.passes + 1 >= MaxPasses
                             THEN "done" ELSE "loop",
                  labels |-> r.labels,
                  passes |-> run.passes + 1]
    /\ UNCHANGED <<nodes, edges, reverseEdges, pageRanks, communities, dirty, config, last, track,
                   pending>>

\* `this.communities = labels`, the communities:detected event and the return
DetectFinish ==
    /\ run.pc = "done"
    /\ communities' = run.labels
    /\ Returned("detectCommunities", <<>>, run.labels,
                <<Event("communities:detected", CommunityCount(run.labels))>>)
    /\ run' = RunIdle
    /\ UNCHANGED <<nodes, edges, reverseEdges, pageRanks, dirty, config, track, pending>>

\* A graph built by addNode and addEdge calls, its edges of type reference and
\* weight 1.0 or, on up to three nodes, alternately causal of weight 3.0 and
\* temporal of weight 0.5.
InitDetect ==
    /\ \E x \in ShapesIn :
          \/ Loaded(GraphOf(DEFAULT_CONFIG, x[1], x[2]))
          \/ /\ Cardinality(x[1]) <= 3
             /\ Loaded(Relabelled(GraphOf(DEFAULT_CONFIG, x[1], x[2]), HeavyLight))
    /\ config = DEFAULT_CONFIG
    /\ last = [op |-> "new", args |-> <<>>, ret |-> <<>>, events |-> <<>>]
    /\ track = TrackIdle
    /\ run = RunIdle
    /\ pending = NoCalls

NextDetect ==
    \/ DetectStart
    \/ \E order \in VisitOrders(DOMAIN nodes) : DetectPass(order)
    \/ DetectFinish

SpecDetect == InitDetect /\ [][NextDetect]_vars

\* C19: detectCommunities makes at most 20 passes, whatever the visit orders;
\* a pass that changed no label is the last one, and a pass that changed a
\* label is followed by another unless it was the 20th.
C19_PassesBounded ==
    /\ [](run.passes <= MaxPasses /\ (run.pc = "loop" => run.passes < MaxPasses))
    /\ [][run.pc = "loop" =>
            /\ run'.passes = run.passes + 1
            /\ (run'.labels = run.labels => run'.pc = "done")
            /\ (run'.labels # run.labels /\ run'.passes < MaxPasses => run'.pc = "loop")
            /\ (run'.passes = MaxPasses => run'.pc = "done")]_vars

\* the 20th pass has changed a label and the loop is over
C19_Witness ==
    /\ run.pc = "done"
    /\ run.passes = MaxPasses
    /\ \E order \in VisitOrders(DOMAIN nodes) : Pass(Graph, run.labels, order, FALSE).changed

\* node n has no outgoing edge and no recorded incoming source
Isolated(n) == Len(edges[n]) = 0 /\ reverseEdges[n] = <<>>

\* C20: after detectCommunities, whatever the visit orders were, the community
\* table (stored and returned) has exactly the node ids as keys and labels
\* every node without incident edges with its own id; the same holds of the
\* labels throughout the call.
C20_CommunityKeysAndSingletons ==
    /\ (run.pc # "idle" =>
          /\ DOMAIN run.labels = DOMAIN nodes
          /\ \A n \in DOMAIN nodes : Isolated(n) => run.labels[n] = n)
    /\ (last.op = "detectCommunities" =>
          /\ DOMAIN communities = DOMAIN nodes
          /\ last.ret = communities
          /\ \A n \in DOMAIN nodes : Isolated(n) => communities[n] = n)

\* detectCommunities has returned on a graph with a node apart from the
\* rest, two other nodes having been given one label
C20_Witness ==
    /\ last.op = "detectCommunities"
    /\ \E n, a, b \in DOMAIN nodes :
          /\ Isolated(n) /\ communities[n] = n
          /\ a # b /\ communities[a] = communities[b]

(* ------------------------------- reads ------------------------------- *)

\* a recomputation whether the flag is set or not
RefreshRanks_Always(g, cfg) ==
    LET r == computePageRank(g, cfg)
    IN  [g |-> r.g, events |-> <<Event("pagerank:computed", r.iterations)>>]

\* a recomputation that empties the community table as well
RefreshRanks_DropsLabels(g, cfg) ==
    IF g.dirty
    THEN LET r == computePageRank(g, cfg)
         IN  [g |-> [r.g EXCEPT !.communities = EmptyMap],
              events |-> <<Event("pagerank:computed", r.iterations)>>]
    ELSE [g |-> g, events |-> <<>>]

\* `if (this.dirty) this.computePageRank()`: the graph afterwards and what
\* the call emitted
RefreshRanks(g, cfg) ==
    IF g.dirty
    THEN LET r == computePageRank(g, cfg)
         IN  [g |-> r.g, events |-> <<Event("pagerank:computed", r.iterations)>>]
    ELSE [g |-> g, events |-> <<>>]

\* the positions 1..n left where they are
SortedIndices_Unsorted(keys, n) == [k \in 1..n |-> k]

\* The positions 1..n of keys as Array.prototype.sort leaves them under the
\* comparator (a, b) => b - a: by descending key, equal keys in their original
\* order (the sort is stable).
RECURSIVE SortedIndices(_, _)
SortedIndices(keys, n) ==
    IF n = 0 THEN <<>>
    ELSE LET prev == SortedIndices(keys, n - 1)
             pos  == Cardinality({k \in 1..Len(prev) : ~RLt(keys[prev[k]], keys[n])})
         IN  SubSeq(prev, 1, pos) \o <<n>> \o SubSeq(prev, pos + 1, Len(prev))

\* this.nodes.size || 1
NodeCountOr1(g) ==
    IF Cardinality(DOMAIN g.nodes) = 0 THEN 1 ELSE Cardinality(DOMAIN g.nodes)

\* alpha * score + (1 - alpha) * (pageRank * N), the score being in tenths
CombinedScore_Unscaled(alpha, score, pageRank, N) ==
    RAdd(RMul(alpha, Rat(score, 10)), RMul(RSub(Rat(1, 1), alpha), pageRank))

CombinedScore(alpha, score, pageRank, N) ==
    RAdd(RMul(alpha, Rat(score, 10)),
         RMul(RSub(Rat(1, 1), alpha), RMul(pageRank, Rat(N, 1))))

\* the row carrying the entry's own id where the table has no label for it
RankedResult_OwnId(g, result, alpha) ==
    LET pageRank == RankOr0(g.pageRanks, result.id)
    IN  [entry         |-> result.id,
         score         |-> result.score,
         pageRank      |-> pageRank,
         combinedScore |-> CombinedScore(alpha, result.score, pageRank, NodeCountOr1(g)),
         community     |-> IF result.id \in DOMAIN g.communities
                           THEN <<g.communities[result.id]>> ELSE <<result.id>>]

\* the row rankWithGraph maps a search result to; entry is the entry's id
RankedResult(g, result, alpha) ==
    LET pageRank == RankOr0(g.pageRanks, result.id)
    IN  [entry         |-> result.id,
         score         |-> result.score,
         pageRank      |-> pageRank,
         combinedScore |-> CombinedScore(alpha, result.score, pageRank, NodeCountOr1(g)),
         community     |-> IF result.id \in DOMAIN g.communities
                           THEN <<g.communities[result.id]>> ELSE <<>>]

\* rankWithGraph, `searchResults.map(...).sort(...)` on the refreshed graph
RankRows(g, searchResults, alpha) ==
    LET mapped == [k \in 1..Len(searchResults) |-> RankedResult(g, searchResults[k], alpha)]
        idx    == SortedIndices([k \in 1..Len(mapped) |-> mapped[k].combinedScore], Len(mapped))
    IN  [k \in 1..Len(idx) |-> mapped[idx[k]]]

\* MemoryGraph.rankWithGraph: [g: the graph after, events: what was emitted,
\* rows: the returned array] (r is bound, so that the refresh is evaluated
\* once)
rankWithGraph(g, cfg, searchResults, alpha) ==
    CHOOSE out \in {[g |-> r.g, events |-> r.events,
                     rows |-> RankRows(r.g, searchResults, alpha)] :
                        r \in {RefreshRanks(g, cfg)}} : TRUE

\* slice that keeps the whole array
TopSlice_All(idx, n) == idx

\* `.slice(0, n)` for n >= 0
TopSlice(idx, n) == SubSeq(idx, 1, IF n < Len(idx) THEN n ELSE Len(idx))

\* getTopNodes, `[...this.pageRanks.entries()].sort(...).slice(0, n).map(...)`
\* on the refreshed graph, order being the order in which the rank table
\* yields its entries (its insertion order, which the Map of the model does
\* not keep)
TopRows(g, n, order) ==
    LET keys == [k \in 1..Len(order) |-> g.pageRanks[order[k]]]
        idx  == SortedIndices(keys, Len(keys))
        top  == TopSlice(idx, n)
    IN  [k \in 1..Len(top) |->
            [id        |-> order[top[k]],
             pageRank  |-> keys[top[k]],
             community |-> IF order[top[k]] \in DOMAIN g.communities
                           THEN g.communities[order[top[k]]]
                           ELSE order[top[k]]]]

\* MemoryGraph.getTopNodes for n >= 0: [g, events, rows]
getTopNodes(g, cfg, n, order) ==
    CHOOSE out \in {[g |-> r.g, events |-> r.events, rows |-> TopRows(r.g, n, order)] :
                        r \in {RefreshRanks(g, cfg)}} : TRUE

\* the orders in which the rank table can yield its entries once refreshed
EntryOrders(g, cfg) ==
    UNION {VisitOrders(DOMAIN r.g.pageRanks) : r \in {RefreshRanks(g, cfg)}}

\* getNeighbors, `for (const edge of this.edges.get(nodeId) || [])`:
\* <<visited, nextFrontier>> after the edges of one frontier node
RECURSIVE ScanEdges(_, _, _, _)
ScanEdges(id, list, visited, nextFrontier) ==
    IF list = <<>> THEN <<visited, nextFrontier>>
    ELSE LET edge == Head(list)
         IN  IF edge.targetId \notin Range(visited) /\ edge.targetId # id
             THEN ScanEdges(id, Tail(list), Append(visited, edge.targetId),
                            Append(nextFrontier, edge.targetId))
             ELSE ScanEdges(id, Tail(list), visited, nextFrontier)

\* getNeighbors, `for (const nodeId of frontier)`
RECURSIVE ScanFrontier(_, _, _, _, _)
ScanFrontier(g, id, frontier, visited, nextFrontier) ==
    IF frontier = <<>> THEN <<visited, nextFrontier>>
    ELSE LET nodeId == Head(frontier)
             list   == IF nodeId \in DOMAIN g.edges THEN g.edges[nodeId] ELSE <<>>
             r      == ScanEdges(id, list, visited, nextFrontier)
         IN  ScanFrontier(g, id, Tail(frontier), r[1], r[2])

\* getNeighbors, `for (let d = 0; d < depth; d++)` with its break on an empty
\* frontier
RECURSIVE Expand(_, _, _, _, _, _)
Expand(g, id, depth, d, frontier, visited) ==
    IF ~(d < depth) THEN visited
    ELSE LET r == ScanFrontier(g, id, frontier, visited, <<>>)
         IN  IF r[2] = <<>> THEN r[1]
             ELSE Expand(g, id, depth, d + 1, r[2], r[1])

\* getNeighbors that expands one level more than asked
getNeighbors_OneMore(g, id, depth) == Expand(g, id, depth + 1, 0, <<id>>, <<>>)

\* MemoryGraph.getNeighbors: the returned Set, in insertion order
getNeighbors(g, id, depth) == Expand(g, id, depth, 0, <<id>>, <<>>)

RankWithGraph(searchResults, alpha) ==
    \E r \in {rankWithGraph(Graph, config, searchResults, alpha)} :
        /\ Apply(r.g)
        /\ Returned("rankWithGraph", <<searchResults, alpha>>, r.rows, r.events)
        /\ UNCHANGED config

GetTopNodes(n, order) ==
    \E r \in {getTopNodes(Graph, config, n, order)} :
        /\ Apply(r.g)
        /\ Returned("getTopNodes", <<n>>, r.rows, r.events)
        /\ UNCHANGED config

GetNeighbors(id, depth) ==
    /\ Returned("getNeighbors", <<id, depth>>, getNeighbors(Graph, id, depth), <<>>)
    /\ UNCHANGED <<nodes, edges, reverseEdges, pageRanks, communities, dirty, config>>

\* the defaults with the iteration cap the rationals can follow
ReadConfig == [DEFAULT_CONFIG EXCEPT !.pageRankIterations = 2]

\* three hits that the sort has to reorder, the last id possibly not a node
ThreeHits ==
    <<[id |-> 1, score |-> 5], [id |-> 2, score |-> 9], [id |-> NumIds, score |-> 7]>>

\* two hits of equal score
TwoHits == <<[id |-> NumIds, score |-> 9], [id |-> 1, score |-> 9]>>

\* the calls of rankWithGraph: <<searchResults, alpha>>, alpha being the
\* default 0.7 or an end of its range
RankCalls ==
    {<<<<>>, Rat(7, 10)>>,
     <<ThreeHits, Rat(7, 10)>>,
     <<ThreeHits, Rat(0, 1)>>,
     <<TwoHits, Rat(1, 1)>>}

MaxDepth == 2

\* no read has been made of the graph yet
Unread == last.op \in {"new", "detectCommunities"}

\* the shapes without self-loops
ReadShapes == {x \in ShapesIn : \A e \in x[2] : e[1] # e[2]}

\* A graph built by addNode and addEdge calls, on which detectCommunities may
\* run once and which is then read once.  The rank table yields its entries
\* in the order in which the nodes were added: ascending.
InitRead ==
    /\ \E x \in ReadShapes : Loaded(GraphOf(ReadConfig, x[1], x[2]))
    /\ config = ReadConfig
    /\ last = [op |-> "new", args |-> <<>>, ret |-> <<>>, events |-> <<>>]
    /\ track = TrackIdle
    /\ run = RunIdle
    /\ pending = NoCalls

NextRead ==
    \/ last.op = "new" /\ DetectCommunities /\ UNCHANGED <<track, run, pending>>
    \/ last.op = "new" /\ ComputePageRank /\ UNCHANGED <<track, run, pending>>
    \/ /\ Unread
       /\ \E call \in RankCalls : RankWithGraph(call[1], call[2])
       /\ UNCHANGED <<track, run, pending>>
    \/ /\ Unread
       /\ \E n \in 0..NumIds : GetTopNodes(n, Ascending(DOMAIN nodes))
       /\ UNCHANGED <<track, run, pending>>
    \/ /\ last.op = "new"
       /\ \E id \in {1, NumIds}, depth \in 0..MaxDepth : GetNeighbors(id, depth)
       /\ UNCHANGED <<track, run, pending>>

SpecRead == InitRead /\ [][NextRead]_vars

\* The direct calls interleaved with the two reads that refresh the rank
\* table, which yields its entries in any order.
NextLazy ==
    \/ \E id \in Ids : AddNode(MemoryEntry(id, NoMetadata, <<>>, FALSE)) /\ UNCHANGED <<track, run, pending>>
    \/ \E s, t \in Ids : AddEdge(s, t, "reference", DefaultWeight) /\ UNCHANGED <<track, run, pending>>
    \/ \E id \in Ids : RemoveNode(id) /\ UNCHANGED <<track, run, pending>>
    \/ RankWithGraph(ThreeHits, Rat(7, 10)) /\ UNCHANGED <<track, run, pending>>
    \/ \E order \in EntryOrders(Graph, config) : GetTopNodes(1, order) /\ UNCHANGED <<track, run, pending>>

SpecLazy == Init /\ [][NextLazy]_vars

(* -------------------------- claims on reads -------------------------- *)

\* row k of rows comes from the search result at position p[k]
RowsFrom(rows, searchResults, p) ==
    \A k \in 1..Len(rows) :
        rows[k].entry = searchResults[p[k]].id /\ rows[k].score = searchResults[p[k]].score

\* C21: rankWithGraph returns one row per search result, the rows being the
\* results in some order, and the combined score never increases from a row
\* to the next, whatever the results, alpha and the graph are.
C21_RowsPermutedAndOrdered ==
    last.op = "rankWithGraph" =>
        /\ Len(last.ret) = Len(last.args[1])
        /\ \E p \in VisitOrders(1..Len(last.args[1])) : RowsFrom(last.ret, last.args[1], p)
        /\ \A k \in 1..(Len(last.ret) - 1) :
              ~RLt(last.ret[k].combinedScore, last.ret[k + 1].combinedScore)

\* three results have come back in another order than given, the combined
\* score falling from each row to the next
C21_Witness ==
    /\ last.op = "rankWithGraph"
    /\ Len(last.ret) = 3
    /\ last.ret[1].entry # last.args[1][1].id
    /\ RLt(last.ret[2].combinedScore, last.ret[1].combinedScore)
    /\ RLt(last.ret[3].combinedScore, last.ret[2].combinedScore)

\* C22: every row of rankWithGraph has combinedScore = alpha * score +
\* (1 - alpha) * (pageRank * N), N being the node count (1 on the empty graph)
\* and pageRank the node's rank in the table (0 for an id that is not a
\* node); the row carries that rank unscaled, and the node's community label,
\* absent when none is recorded.
C22_CombinedScoreFormula ==
    last.op = "rankWithGraph" =>
        LET alpha == last.args[2]
            N     == IF DOMAIN nodes = {} THEN 1 ELSE Cardinality(DOMAIN nodes)
        IN  \A k \in 1..Len(last.ret) :
                LET row == last.ret[k]
                IN  /\ row.pageRank = IF row.entry \in DOMAIN nodes
                                      THEN pageRanks[row.entry] ELSE RZero
                    /\ row.combinedScore =
                          RAdd(RMul(alpha, Rat(row.score, 10)),
                               RMul(RSub(Rat(1, 1), alpha), RMul(row.pageRank, Rat(N, 1))))
                    /\ row.community = IF row.entry \in DOMAIN communities
                                       THEN <<communities[row.entry]>> ELSE <<>>

\* under the default alpha, on two nodes or more: a row with a label and a
\* positive rank, and a row for an id that is not a node, without label and
\* of rank 0
C22_Witness ==
    /\ last.op = "rankWithGraph"
    /\ last.args[2] = Rat(7, 10)
    /\ Cardinality(DOMAIN nodes) >= 2
    /\ \E i, j \in 1..Len(last.ret) :
          /\ last.ret[i].community # <<>> /\ RLt(RZero, last.ret[i].pageRank)
          /\ last.ret[j].entry \notin DOMAIN nodes
          /\ last.ret[j].community = <<>> /\ last.ret[j].pageRank = RZero

RankReads == {"rankWithGraph", "getTopNodes"}

\* C23: rankWithGraph and getTopNodes recompute the ranks exactly when the
\* staleness flag is set on entry (one pagerank:computed then, none
\* otherwise); when they return the flag is clear and the rank table is the
\* one of the graph as it is; a read that follows a read emits nothing and
\* leaves the rank table as it was; neither changes nodes or edges.
C23_LazyRecomputation ==
    /\ [](last.op \in RankReads => ~dirty /\ RanksFresh)
    /\ [][last'.op \in RankReads =>
            /\ dirty => /\ Len(last'.events) = 1
                        /\ last'.events[1].name = "pagerank:computed"
            /\ ~dirty => last'.events = <<>> /\ pageRanks' = pageRanks
            /\ last.op \in RankReads => last'.events = <<>> /\ pageRanks' = pageRanks
            /\ UNCHANGED <<nodes, edges, reverseEdges, communities>>]_vars

\* a read has returned without recomputing, on a graph with an edge
C23_Witness ==
    /\ last.op \in RankReads
    /\ last.events = <<>>
    /\ \E s \in DOMAIN edges : Len(edges[s]) > 0

\* C24: getTopNodes(n), n >= 0, returns min(n, N) rows of distinct node ids
\* with their ranks, the rank never increasing from a row to the next and no
\* node left out having a greater rank than a node returned; the community of
\* a row is the recorded label, or the id itself when none is recorded.
C24_TopNodes ==
    last.op = "getTopNodes" =>
        LET n    == last.args[1]
            N    == Cardinality(DOMAIN nodes)
            rows == last.ret
            ids  == {rows[k].id : k \in 1..Len(rows)}
        IN  /\ Len(rows) = IF n < N THEN n ELSE N
            /\ ids \subseteq DOMAIN nodes
            /\ Cardinality(ids) = Len(rows)
            /\ \A k \in 1..Len(rows) :
                  /\ rows[k].id \in DOMAIN pageRanks
                  /\ rows[k].pageRank = pageRanks[rows[k].id]
                  /\ rows[k].community = IF rows[k].id \in DOMAIN communities
                                         THEN communities[rows[k].id] ELSE rows[k].id
            /\ \A k \in 1..(Len(rows) - 1) : ~RLt(rows[k].pageRank, rows[k + 1].pageRank)
            /\ \A m \in (DOMAIN nodes) \ ids : \A k \in 1..Len(rows) :
                  m \in DOMAIN pageRanks /\ ~RLt(rows[k].pageRank, pageRanks[m])

\* fewer rows than nodes were asked for: the rows fall in rank, and a node of
\* smaller rank is left out
C24_Witness ==
    /\ last.op = "getTopNodes"
    /\ Len(last.ret) = 2
    /\ RLt(last.ret[2].pageRank, last.ret[1].pageRank)
    /\ \E m \in DOMAIN nodes :
          /\ m \notin {last.ret[k].id : k \in 1..2}
          /\ RLt(pageRanks[m], last.ret[2].pageRank)

\* the targets of the edges leaving the ids of S
Targets(S) ==
    {t \in Ids : \E s \in S \cap DOMAIN edges :
                    \E i \in 1..Len(edges[s]) : edges[s][i].targetId = t}

\* the ids at the end of a path of exactly k edges from id
RECURSIVE PathEnds(_, _)
PathEnds(id, k) == IF k = 0 THEN {id} ELSE Targets(PathEnds(id, k - 1))

\* C25: getNeighbors(id, depth) returns exactly the nodes other than id at
\* the end of a path of 1 to depth outgoing edges from id, each once; id is
\* never returned; depth 0 and an id that is not a node give the empty set;
\* the call changes nothing.
C25_NeighborsWithinDepth ==
    /\ [](last.op = "getNeighbors" =>
            LET id    == last.args[1]
                depth == last.args[2]
            IN  /\ Range(last.ret) = (UNION {PathEnds(id, k) : k \in 1..depth}) \ {id}
                /\ ~HasRepeat(last.ret)
                /\ Range(last.ret) \subseteq DOMAIN nodes
                /\ id \notin Range(last.ret)
                /\ (depth = 0 \/ id \notin DOMAIN nodes => last.ret = <<>>))
    /\ [][last'.op = "getNeighbors" =>
            UNCHANGED <<nodes, edges, reverseEdges, pageRanks, communities, dirty>>]_vars

\* the start is on a cycle; a node two edges away was returned, which depth 1
\* does not reach
C25_Witness ==
    /\ last.op = "getNeighbors"
    /\ last.args[2] = 2
    /\ last.args[1] \in PathEnds(last.args[1], 2)
    /\ \E u \in Range(last.ret) : u \notin PathEnds(last.args[1], 1)

(* ------------------------- edge construction ------------------------- *)

\* The five mutating calls, the query resolving to at most one entry and the
\* search to at most one neighbour: every graph they build is one of Spec.
NextEdges ==
    \/ \E id \in Ids : AddNode(MemoryEntry(id, NoMetadata, <<>>, FALSE)) /\ UNCHANGED <<track, run, pending>>
    \/ \E s, t \in Ids : AddEdge(s, t, "reference", DefaultWeight) /\ UNCHANGED <<track, run, pending>>
    \/ \E id \in Ids : RemoveNode(id) /\ UNCHANGED <<track, run, pending>>
    \/ \E entries \in {b \in Batches : Len(b) <= 1} :
          BuildFromBackend(entries) /\ UNCHANGED <<track, run, pending>>
    \/ \E id \in Ids : AddSimilarityEdges(id, <<>>, <<>>) /\ UNCHANGED <<track, run, pending>>
    \/ \E id \in Ids :
          AddSimilarityEdges(id, <<MemoryEntry(id, NoMetadata, <<>>, FALSE)>>, <<>>)
          /\ UNCHANGED <<track, run, pending>>
    \/ \E id \in Ids : \E results \in SeqsUpTo(Hits(id), 1) :
          AddSimilarityEdges(id, <<MemoryEntry(id, NoMetadata, <<>>, TRUE)>>, results)
          /\ UNCHANGED <<track, run, pending>>

SpecEdges == Init /\ [][NextEdges]_vars

(* --------------------- claims on edge construction ------------------- *)

\* every reachable graph is met in a state of this kind: the call that does
\* nothing can be made in any state
AfterIdleCall == last.op = "addSimilarityEdges" /\ ~last.args[2]

\* the <<source, target>> pairs the entries of a batch refer to
RefPairs(entries) ==
    UNION {{<<entries[k].id, entries[k].references[i]>> :
               i \in 1..Len(entries[k].references)} : k \in 1..Len(entries)}

\* C26: buildFromBackend adds every node before any edge: whatever the
\* entries fetched and their order, each reference e.id -> r whose two ends
\* are nodes after the node pass is an edge when the call returns (of type
\* reference and weight 1.0 unless the pair had an edge before), and a
\* reference with an end that is not a node then adds neither an edge nor a
\* node; no other edge is added.
C26_BuildNodesBeforeEdges ==
    AfterIdleCall =>
        \A entries \in Batches :
            LET mid   == AddNodes(Graph, config, entries)
                after == buildFromBackend(Graph, config, entries)
            IN  /\ DOMAIN after.nodes = DOMAIN mid.nodes
                /\ \A pr \in RefPairs(entries) :
                      IF pr[1] \in DOMAIN mid.nodes /\ pr[2] \in DOMAIN mid.nodes
                      THEN /\ hasEdge(after, pr[1], pr[2])
                           /\ ~hasEdge(Graph, pr[1], pr[2]) =>
                                 /\ EdgeOf(after, pr[1], pr[2]).type = "reference"
                                 /\ EdgeOf(after, pr[1], pr[2]).weight = DefaultWeight
                      ELSE ~hasEdge(after, pr[1], pr[2])
                /\ \A e \in EdgeSet(after) \ EdgeSet(Graph) :
                      <<e[1], e[2]>> \in RefPairs(entries)

\* a build has returned with a reference edge between two of its nodes, an id
\* being no node
C26_Witness ==
    /\ last.op = "buildFromBackend"
    /\ \E a, b \in DOMAIN nodes :
          a # b /\ hasEdge(Graph, a, b) /\ EdgeOf(Graph, a, b).type = "reference"
    /\ \E c \in Ids : c \notin DOMAIN nodes

\* what backend.get resolves to when there is nothing to search with: no
\* entry, or an entry without embedding
NoEmbedding(entryId) == {<<>>, <<MemoryEntry(entryId, NoMetadata, <<>>, FALSE)>>}

\* C27: when the backend has no entry for entryId, or the entry has no
\* embedding, addSimilarityEdges returns 0, makes no search and changes
\* nothing of the graph, whatever the search would have found.
C27_NoEmbeddingNoSearch ==
    /\ [](\A entryId \in Ids : \A got \in NoEmbedding(entryId) :
             \A results \in SearchResults(entryId) :
                addSimilarityEdges(Graph, config, entryId, got, results) = <<Graph, 0, FALSE>>)
    /\ [][last'.op = "addSimilarityEdges" /\ ~last'.args[2] =>
            /\ last'.ret = 0
            /\ UNCHANGED <<nodes, edges, reverseEdges, pageRanks, communities, dirty>>]_vars

\* the call has returned without a search on a graph of two nodes with no
\* edge between them
C27_Witness ==
    /\ last.op = "addSimilarityEdges"
    /\ ~last.args[2]
    /\ last.ret = 0
    /\ Cardinality(DOMAIN nodes) = 2
    /\ EdgeSet(Graph) = {}

\* the stored edges as <<source, target>>
PairSet(g) == {<<e[1], e[2]>> : e \in EdgeSet(g)}

\* what backend.get resolves to for an entry that can be searched with
WithEmbedding(entryId) == <<MemoryEntry(entryId, NoMetadata, <<>>, TRUE)>>

\* C28: the number addSimilarityEdges returns is the number of edges the call
\* added: the pairs with an edge after the call and none before, whatever the
\* graph (entryId or a neighbour being a node or not) and the search result.
C28_ReturnCountsAddedEdges ==
    \A entryId \in Ids : \A results \in SearchResults(entryId) :
        LET r == addSimilarityEdges(Graph, config, entryId, WithEmbedding(entryId), results)
        IN  r[2] = Cardinality(PairSet(r[1]) \ PairSet(Graph))

\* neighbours a search is tried with: those of Hits, and the next id at 1.0
ProbeHits(entryId) == Hits(entryId) \cup {[id |-> NextId(entryId), score |-> 10]}

ProbeSearches(entryId) == SeqsUpTo(ProbeHits(entryId), MaxResults)

\* the scores at or above the threshold with which results names neighbour t
Qualifying(cfg, entryId, results, t) ==
    {results[k].score : k \in {j \in 1..Len(results) :
        results[j].id = t /\ t # entryId /\ results[j].score >= cfg.similarityThreshold}}

MaxOf(S) == CHOOSE x \in S : \A y \in S : y <= x

\* C29: addSimilarityEdges adds no edge from entryId to itself and none for a
\* neighbour reported only below the threshold, and re-weights none for it;
\* every edge it adds leaves entryId, has type similar and the neighbour's
\* score as weight (the greatest one if the neighbour is reported twice);
\* an edge that was there keeps its type and gets the weight max(old, score);
\* all other edges stay as they were.
C29_SimilarEdges ==
    AfterIdleCall =>
        \A entryId \in Ids : \A results \in ProbeSearches(entryId) :
            LET after == addSimilarityEdges(Graph, config, entryId,
                                            WithEmbedding(entryId), results)[1]
            IN  /\ \A pr \in PairSet(after) \ PairSet(Graph) :
                      LET q == Qualifying(config, entryId, results, pr[2])
                      IN  /\ pr[1] = entryId /\ pr[2] # entryId
                          /\ q # {}
                          /\ EdgeOf(after, pr[1], pr[2]).type = "similar"
                          /\ EdgeOf(after, pr[1], pr[2]).weight = MaxOf(q)
                /\ \A pr \in PairSet(Graph) :
                      LET q   == Qualifying(config, entryId, results, pr[2])
                          old == EdgeOf(Graph, pr[1], pr[2])
                      IN  /\ pr \in PairSet(after)
                          /\ EdgeOf(after, pr[1], pr[2]).type = old.type
                          /\ EdgeOf(after, pr[1], pr[2]).weight =
                                IF pr[1] = entryId /\ q # {}
                                THEN Max(old.weight, MaxOf(q)) ELSE old.weight
                /\ Cardinality(EdgeSet(after)) = Cardinality(PairSet(after))

\* the call has added a similar edge of weight 0.9 beside a reference edge
\* of the same source
C29_Witness ==
    /\ last.op = "addSimilarityEdges"
    /\ last.ret = 1
    /\ \E s, t, u \in DOMAIN nodes :
          /\ <<s, t, "similar", 9>> \in EdgeSet(Graph)
          /\ <<s, u, "reference", DefaultWeight>> \in EdgeSet(Graph)

(* -------------------------- claims on caches ------------------------- *)

\* C30: in every reachable state the keys of the rank table and of the
\* community table are ids of nodes: no call stores an entry under an id
\* that is not a node, and removeNode(id) leaves neither a rank nor a
\* community label for id.
C30_CacheKeysAreNodes ==
    /\ DOMAIN pageRanks \subseteq DOMAIN nodes
    /\ DOMAIN communities \subseteq DOMAIN nodes
    /\ \A id \in Ids :
          LET g == removeNode(Graph, id)
          IN  id \notin DOMAIN g.pageRanks /\ id \notin DOMAIN g.communities

\* one of two ranked and labelled nodes has been removed: the other one still
\* has the rank 1/2 and its label
C30_Witness ==
    /\ last.op = "removeNode"
    /\ \E n \in Ids :
          /\ DOMAIN nodes = {n}
          /\ DOMAIN pageRanks = {n} /\ pageRanks[n] = Rat(1, 2)
          /\ DOMAIN communities = {n}

(* -------------------------- suspended calls -------------------------- *)

\* An awaited backend call that rejects throws out of the async method at the
\* await: the method has no catch and no finally, so none of its later
\* statements runs.  The object after the throw and the events emitted.
Rejected_MarksStale(g) == [g |-> [g EXCEPT !.dirty = TRUE], events |-> <<>>]

Rejected(g) == [g |-> g, events |-> <<>>]

\* the call is made: it runs up to `await backend.query(...)` and is suspended
CallBuildFromBackend ==
    /\ pending.build = "none"
    /\ pending' = [pending EXCEPT !.build = "query"]
    /\ UNCHANGED <<nodes, edges, reverseEdges, pageRanks, communities, dirty, config, last>>

\* the query resolves: the rest of the method runs without another await;
\* last.args is the batch
QueryResolves(entries) ==
    /\ pending.build = "query"
    /\ \E g \in {buildFromBackend(Graph, config, entries)} :
          /\ Apply(g)
          /\ Returned("buildFromBackend", <<entries>>, <<>>,
                      <<Event("graph:built", Cardinality(DOMAIN g.nodes))>>)
    /\ pending' = [pending EXCEPT !.build = "none"]
    /\ UNCHANGED config

\* the awaited call of the suspended method op rejects: last is the throw
Throws(op, at) ==
    \E r \in {Rejected(Graph)} :
        /\ Apply(r.g)
        /\ Returned("rejected", <<op, at>>, <<>>, r.events)
        /\ UNCHANGED config

QueryRejects ==
    /\ pending.build = "query"
    /\ Throws("buildFromBackend", "query")
    /\ pending' = [pending EXCEPT !.build = "none"]

\* the call is made: it runs up to `await backend.get(entryId)`
CallAddSimilarityEdges(entryId) ==
    /\ pending.similar = "none"
    /\ pending' = [pending EXCEPT !.similar = "get", !.entryId = entryId]
    /\ UNCHANGED <<nodes, edges, reverseEdges, pageRanks, communities, dirty, config, last>>

\* the get resolves: the method returns 0, or goes on to
\* `await backend.search(...)` and is suspended again
GetResolves(got) ==
    /\ pending.similar = "get"
    /\ \E r \in {addSimilarityEdges(Graph, config, pending.entryId, got, <<>>)} :
          IF r[3]
          THEN /\ pending' = [pending EXCEPT !.similar = "search"]
               /\ UNCHANGED <<nodes, edges, reverseEdges, pageRanks, communities, dirty,
                              config, last>>
          ELSE /\ AddSimilarityEdges(pending.entryId, got, <<>>)
               /\ pending' = [pending EXCEPT !.similar = "none", !.entryId = 0]

GetRejects ==
    /\ pending.similar = "get"
    /\ Throws("addSimilarityEdges", "get")
    /\ pending' = [pending EXCEPT !.similar = "none", !.entryId = 0]

\* the search resolves: the loop over the results runs without another await
SearchResolves(results) ==
    /\ pending.similar = "search"
    /\ AddSimilarityEdges(pending.entryId,
                          <<MemoryEntry(pending.entryId, NoMetadata, <<>>, TRUE)>>, results)
    /\ pending' = [pending EXCEPT !.similar = "none", !.entryId = 0]

SearchRejects ==
    /\ pending.similar = "search"
    /\ Throws("addSimilarityEdges", "search")
    /\ pending' = [pending EXCEPT !.similar = "none", !.entryId = 0]

\* what backend.get can resolve to
Gets(entryId) ==
    {<<>>, <<MemoryEntry(entryId, NoMetadata, <<>>, FALSE)>>,
     <<MemoryEntry(entryId, NoMetadata, <<>>, TRUE)>>}

\* what backend.query resolves to here: nothing, or one entry that refers to
\* itself and to the previous id
AsyncBatches ==
    {<<>>} \cup {<<MemoryEntry(i, NoMetadata, <<i, PrevId(i)>>, FALSE)>> : i \in Ids}

\* the ids addSimilarityEdges is called for here: the lowest one
AsyncEntries == {CHOOSE i \in Ids : \A j \in Ids : i <= j}

\* the configuration here: the rank computation stops after filling the table
\* with 1/N
AsyncConfig == [ModelConfig EXCEPT !.pageRankIterations = 0]

InitAsync ==
    /\ nodes = EmptyMap
    /\ edges = EmptyMap
    /\ reverseEdges = EmptyMap
    /\ pageRanks = EmptyMap
    /\ communities = EmptyMap
    /\ dirty = TRUE
    /\ config = AsyncConfig
    /\ last = [op |-> "new", args |-> <<>>, ret |-> <<>>, events |-> <<>>]
    /\ track = TrackIdle
    /\ run = RunIdle
    /\ pending = NoCalls

\* The synchronous calls interleaved with one buildFromBackend call and one
\* addSimilarityEdges call, each taken from await to await; a backend call
\* resolves or rejects.
NextAsync ==
    \/ \E id \in Ids : AddNode(MemoryEntry(id, NoMetadata, <<>>, FALSE)) /\ UNCHANGED <<track, run, pending>>
    \/ \E s, t \in Ids : AddEdge(s, t, "reference", DefaultWeight) /\ UNCHANGED <<track, run, pending>>
    \/ \E id \in Ids : RemoveNode(id) /\ UNCHANGED <<track, run, pending>>
    \/ ComputePageRank /\ UNCHANGED <<track, run, pending>>
    \/ CallBuildFromBackend /\ UNCHANGED <<track, run>>
    \/ \E entries \in AsyncBatches :
          QueryResolves(entries) /\ UNCHANGED <<track, run>>
    \/ QueryRejects /\ UNCHANGED <<track, run>>
    \/ \E id \in AsyncEntries : CallAddSimilarityEdges(id) /\ UNCHANGED <<track, run>>
    \/ \E got \in Gets(pending.entryId) : GetResolves(got) /\ UNCHANGED <<track, run>>
    \/ GetRejects /\ UNCHANGED <<track, run>>
    \/ \E results \in SeqsUpTo(Hits(pending.entryId), 1) :
          SearchResolves(results) /\ UNCHANGED <<track, run>>
    \/ SearchRejects /\ UNCHANGED <<track, run>>

SpecAsync == InitAsync /\ [][NextAsync]_vars

(* ---------------------- claims on suspended calls -------------------- *)

\* the step in which the suspended buildFromBackend call returns
BuildReturns ==
    pending.build = "query" /\ pending'.build = "none" /\ last'.op = "buildFromBackend"

\* C31: under every interleaving of addNode, addEdge, removeNode and
\* computePageRank with a buildFromBackend and an addSimilarityEdges call
\* suspended at their awaits, every state has edges only between nodes, the
\* reverse index equal to the inverse of the edge lists, at most one edge per
\* pair and at most maxNodes nodes; and the state in which a build has
\* inserted its nodes holds each of its references between two nodes as an
\* edge already.
C31_InterleavingsKeepStructure ==
    /\ [](/\ \A s \in DOMAIN edges :
                /\ s \in DOMAIN nodes
                /\ \A i \in 1..Len(edges[s]) : edges[s][i].targetId \in DOMAIN nodes
                /\ \A i, j \in 1..Len(edges[s]) :
                      edges[s][i].targetId = edges[s][j].targetId => i = j
          /\ \A s, t \in Ids :
                (t \in DOMAIN reverseEdges /\ s \in Range(reverseEdges[t]))
                    <=> (s \in DOMAIN edges /\ \E i \in 1..Len(edges[s]) : edges[s][i].targetId = t)
          /\ DOMAIN edges = DOMAIN nodes
          /\ Cardinality(DOMAIN nodes) <= config.maxNodes)
    /\ [][BuildReturns =>
            \A pr \in RefPairs(last'.args[1]) :
                (pr[1] \in DOMAIN nodes' /\ pr[2] \in DOMAIN nodes')
                    => \E i \in 1..Len(edges'[pr[1]]) : edges'[pr[1]][i].targetId = pr[2]]_vars

\* a build has returned with a node and its reference edge while an
\* addSimilarityEdges call for an id that is no node awaits its search
C31_Witness ==
    /\ last.op = "buildFromBackend"
    /\ pending.similar = "search"
    /\ pending.entryId \notin DOMAIN nodes
    /\ \E n \in DOMAIN nodes : \E i \in 1..Len(edges[n]) : edges[n][i].type = "reference"

\* the step in which the awaited call of a suspended method rejects
RejectStep(op) ==
    /\ last'.op = "rejected"
    /\ last'.args[1] = op
    /\ IF op = "buildFromBackend"
       THEN pending.build = "query" /\ pending'.build = "none"
       ELSE pending.similar # "none" /\ pending'.similar = "none"

\* C32: when the awaited query of buildFromBackend, or the awaited get or
\* search of addSimilarityEdges rejects, the call ends with the throw (it
\* makes no further backend call), nodes, edges, reverse index, caches and
\* staleness flag are what they were before the call's last await, and no
\* event is emitted.
C32_RejectionChangesNothing ==
    [][\A op \in {"buildFromBackend", "addSimilarityEdges"} :
          RejectStep(op) =>
              /\ UNCHANGED <<nodes, edges, reverseEdges, pageRanks, communities, dirty>>
              /\ last'.events = <<>>
              /\ last'.args[2] = (IF op = "buildFromBackend" THEN "query" ELSE pending.similar)]_vars

\* the search of an addSimilarityEdges call has rejected on a graph whose
\* ranks are fresh
C32_Witness ==
    /\ last.op = "rejected"
    /\ last.args = <<"addSimilarityEdges", "search">>
    /\ ~dirty
    /\ DOMAIN nodes # {}

(* ------------------- claims on the power iteration ------------------- *)

\* the nodes with an edge aimed at v, read off the edge lists
SourcesOf(v) ==
    {s \in DOMAIN nodes : \E i \in 1..Len(edges[s]) : edges[s][i].targetId = v}

\* one synchronous step of the reference iteration from the table old
ReferenceStep(old) ==
    LET N        == Cardinality(DOMAIN nodes)
        d        == config.pageRankDamping
        dangling == {n \in DOMAIN nodes : Len(edges[n]) = 0}
        danglingSum == RSum(old, dangling)
    IN  [v \in DOMAIN nodes |->
           RAdd(RDivInt(RSub(<<1, 1>>, d), N),
                RMul(d, RAdd(RSum([s \in SourcesOf(v) |-> RDivInt(old[s], Len(edges[s]))],
                                  SourcesOf(v)),
                             RDivInt(danglingSum, N))))]

\* the reference table after k steps from 1/N
RECURSIVE Reference(_)
Reference(k) ==
    IF k = 0 THEN [v \in DOMAIN nodes |-> Rat(1, Cardinality(DOMAIN nodes))]
    ELSE ReferenceStep(Reference(k - 1))

\* C33: the table computePageRank returns and caches is that of the
\* reference synchronous power iteration after the reported number of
\* iterations: from 1/N, each new rank is (1-d)/N + d*(sum over the sources s
\* of v of old(s)/outDegree(s) + danglingSum/N), outDegree being the number of
\* outgoing edges, danglingSum the old ranks of the nodes without outgoing
\* edge, and every new rank of an iteration computed from the previous table.
C33_ReferencePowerIteration ==
    RankReturned =>
        /\ last.ret = Reference(ReportedIterations)
        /\ pageRanks = last.ret

\* two iterations have run on a graph with a dangling node and a node with two
\* outgoing edges, and left unequal ranks
C33_Witness ==
    /\ RankReturned
    /\ ReportedIterations = 2
    /\ \E n \in DOMAIN nodes : Len(edges[n]) = 0
    /\ \E n \in DOMAIN nodes : Len(edges[n]) = 2
    /\ \E a, b \in DOMAIN nodes : last.ret[a] # last.ret[b]

(* ------------------- claims on label propagation --------------------- *)

\* what node v tallies under the labels L, in the order of tallying: for each
\* outgoing edge <<label of its target, its weight>>, then for each incoming
\* source <<its label, 1.0>>
Votes(L, v) ==
    [i \in 1..(Len(edges[v]) + Len(reverseEdges[v])) |->
        IF i <= Len(edges[v])
        THEN <<L[edges[v][i].targetId], edges[v][i].weight>>
        ELSE <<L[reverseEdges[v][i - Len(edges[v])]], 10>>]

\* the tally of label l among the votes
Score(votes, l) ==
    LET S[i \in 0..Len(votes)] ==
            IF i = 0 THEN 0
            ELSE S[i - 1] + (IF votes[i][1] = l THEN votes[i][2] ELSE 0)
    IN  S[Len(votes)]

\* the place of the first vote for label l
FirstVote(votes, l) ==
    CHOOSE i \in 1..Len(votes) :
        votes[i][1] = l /\ \A j \in 1..(i - 1) : votes[j][1] # l

\* the label with the greatest tally, the first voted for among equals
Winner(votes) ==
    LET labs == {votes[i][1] : i \in 1..Len(votes)}
    IN  CHOOSE l \in labs :
            \A m \in labs :
                \/ Score(votes, l) > Score(votes, m)
                \/ Score(votes, l) = Score(votes, m)
                   /\ FirstVote(votes, l) <= FirstVote(votes, m)

\* the label the claim gives v under the labels L
ClaimedLabel(L, v) ==
    LET votes == Votes(L, v)
    IN  IF Len(votes) = 0 THEN L[v]
        ELSE IF Score(votes, Winner(votes)) > 0 THEN Winner(votes) ELSE L[v]

\* a pass in the given order, each node seeing the labels set before it
RECURSIVE ClaimedPass(_, _)
ClaimedPass(L, order) ==
    IF order = <<>> THEN L
    ELSE ClaimedPass([L EXCEPT ![Head(order)] = ClaimedLabel(L, Head(order))], Tail(order))

\* two labels share the greatest tally of v under the labels L
TiedAt(L, v) ==
    LET votes == Votes(L, v)
    IN  \E i, j \in 1..Len(votes) :
            /\ votes[i][1] # votes[j][1]
            /\ Score(votes, votes[i][1]) = Score(votes, votes[j][1])
            /\ \A k \in 1..Len(votes) : Score(votes, votes[k][1]) <= Score(votes, votes[i][1])

\* C34: in a pass, under whatever labels a pass can start with, the new label
\* of v is the label with the greatest tally, where each outgoing edge adds
\* its weight to the label of its target and each incoming source adds 1 to
\* its own label; v keeps its label when no tally is above 0, and among equal
\* greatest tallies the label tallied first (outgoing edges in list order,
\* then incoming sources) wins; and a whole pass, in whatever visit order,
\* gives each node this label under the labels already updated in the pass
\* (compared pass against pass for the first pass of a call).
C34_LabelChoice ==
    run.pc = "loop" =>
        /\ \A v \in DOMAIN nodes :
              NewLabel(Graph, run.labels, v) = ClaimedLabel(run.labels, v)
        /\ run.passes = 0 =>
              \A order \in VisitOrders(DOMAIN nodes) :
                  Pass(Graph, run.labels, order, FALSE).labels = ClaimedPass(run.labels, order)

\* a pass is about to run in which a node with a tie between two labels takes
\* a new label, in a graph with an edge heavier than 1.0
C34_Witness ==
    /\ run.pc = "loop"
    /\ run.passes > 0
    /\ \E v \in DOMAIN nodes :
          /\ TiedAt(run.labels, v)
          /\ ClaimedLabel(run.labels, v) # run.labels[v]
    /\ \E s \in DOMAIN nodes : \E i \in 1..Len(edges[s]) : edges[s][i].weight > 10

\* the nodes joined to the nodes of S by an edge, in either direction
Touching(S) ==
    {n \in DOMAIN nodes :
        \E m \in S : \/ \E i \in 1..Len(edges[m]) : edges[m][i].targetId = n
                     \/ \E i \in 1..Len(edges[n]) : edges[n][i].targetId = m}

\* the weakly connected component of the nodes of S
RECURSIVE Component(_)
Component(S) ==
    IF Touching(S) \subseteq S THEN S ELSE Component(S \cup Touching(S))

\* C35: whatever the graph and the visit orders, every label a node holds
\* during detectCommunities and in the table it returns and stores is the id
\* of a node of the same weakly connected component, so the reported
\* community count is at least the number of weakly connected components.
C35_LabelsStayInComponent ==
    /\ (run.pc # "idle" =>
          \A n \in DOMAIN run.labels : run.labels[n] \in Component({n}))
    /\ (last.op = "detectCommunities" =>
          /\ \A n \in DOMAIN communities :
                communities[n] \in Component({n}) /\ last.ret[n] \in Component({n})
          /\ last.events[1].payload >= Cardinality({Component({n}) : n \in DOMAIN nodes}))

\* detectCommunities has returned on a graph of two components, one of them
\* of two nodes that share a label
C35_Witness ==
    /\ last.op = "detectCommunities"
    /\ Cardinality({Component({n}) : n \in DOMAIN nodes}) = 2
    /\ \E a, b \in DOMAIN nodes : a # b /\ communities[a] = communities[b]
    /\ last.events[1].payload = 2

(* ------------------- statistics, and labels over time ---------------- *)

\* `for (const edgeList of this.edges.values()) totalEdges += edgeList.length`
RECURSIVE TotalEdges(_, _)
TotalEdges(g, S) ==
    IF S = {} THEN 0
    ELSE LET s == CHOOSE x \in S : TRUE
         IN  Len(g.edges[s]) + TotalEdges(g, S \ {s})

\* getStats that counts the keys of the community table
getStats_CountsKeys(g) ==
    LET totalEdges == TotalEdges(g, DOMAIN g.edges)
        nodeCount  == Cardinality(DOMAIN g.nodes)
        ranks      == {g.pageRanks[k] : k \in DOMAIN g.pageRanks}
    IN  [nodeCount        |-> nodeCount,
         edgeCount        |-> totalEdges,
         avgDegree        |-> IF nodeCount > 0 THEN Rat(totalEdges, nodeCount) ELSE RZero,
         communityCount   |-> Cardinality(DOMAIN g.communities),
         pageRankComputed |-> ~g.dirty,
         maxPageRank      |-> CHOOSE r \in ranks \cup {RZero} :
                                 \A q \in ranks \cup {RZero} : ~RLt(r, q),
         minPageRank      |-> IF ranks = {} THEN RZero
                              ELSE CHOOSE r \in ranks : \A q \in ranks : ~RLt(q, r)]

\* MemoryGraph.getStats: the returned GraphStats
getStats(g) ==
    LET totalEdges == TotalEdges(g, DOMAIN g.edges)
        nodeCount  == Cardinality(DOMAIN g.nodes)
        ranks      == {g.pageRanks[k] : k \in DOMAIN g.pageRanks}
    IN  [nodeCount        |-> nodeCount,
         edgeCount        |-> totalEdges,
         avgDegree        |-> IF nodeCount > 0 THEN Rat(totalEdges, nodeCount) ELSE RZero,
         communityCount   |-> CommunityCount(g.communities),
         pageRankComputed |-> ~g.dirty,
         maxPageRank      |-> CHOOSE r \in ranks \cup {RZero} :
                                 \A q \in ranks \cup {RZero} : ~RLt(r, q),
         minPageRank      |-> IF ranks = {} THEN RZero
                              ELSE CHOOSE r \in ranks : \A q \in ranks : ~RLt(q, r)]

GetStats ==
    /\ Returned("getStats", <<>>, getStats(Graph), <<>>)
    /\ UNCHANGED <<nodes, edges, reverseEdges, pageRanks, communities, dirty, config>>

Mutators == {"addNode", "addEdge", "removeNode", "buildFromBackend", "addSimilarityEdges"}

\* the ids the calls are made with here: the first and the last (the graphs
\* come in every shape, so the other ids add nothing but renamings)
EndIds == {1, NumIds}

\* the shapes without self-loops and with at most two edges
LabelShapes == {x \in ReadShapes : Cardinality(x[2]) <= 2}

InitLabels ==
    /\ \E x \in LabelShapes : Loaded(GraphOf(ReadConfig, x[1], x[2]))
    /\ config = ReadConfig
    /\ last = [op |-> "new", args |-> <<>>, ret |-> <<>>, events |-> <<>>]
    /\ track = TrackIdle
    /\ run = RunIdle
    /\ pending = NoCalls

\* A graph built by addNode and addEdge calls, on which detectCommunities
\* runs; then at most one mutating call is made, then computePageRank or
\* not, and then one call that reads.
NextLabels ==
    \/ last.op = "new" /\ DetectCommunities /\ UNCHANGED <<track, run, pending>>
    \/ /\ last.op = "detectCommunities"
       /\ \/ \E id \in EndIds : AddNode(MemoryEntry(id, NoMetadata, <<>>, FALSE))
          \/ \E s, t \in EndIds : AddEdge(s, t, "reference", DefaultWeight)
          \/ \E id \in EndIds : RemoveNode(id)
          \/ \E id \in EndIds :
                BuildFromBackend(<<MemoryEntry(id, NoMetadata, <<PrevId(id)>>, FALSE)>>)
          \/ \E id \in EndIds :
                AddSimilarityEdges(id, <<MemoryEntry(id, NoMetadata, <<>>, TRUE)>>,
                                   <<[id |-> PrevId(id), score |-> 9]>>)
       /\ UNCHANGED <<track, run, pending>>
    \/ /\ last.op \in Mutators \cup {"detectCommunities"}
       /\ ComputePageRank
       /\ UNCHANGED <<track, run, pending>>
    \/ /\ last.op \in Mutators \cup {"detectCommunities", "computePageRank"}
       /\ \/ RankWithGraph(ThreeHits, Rat(7, 10))
          \/ GetTopNodes(NumIds, Ascending(DOMAIN nodes))
          \/ \E id \in EndIds : GetNeighbors(id, 1)
          \/ GetStats
       /\ UNCHANGED <<track, run, pending>>

SpecLabels == InitLabels /\ [][NextLabels]_vars

(* ---------------------- claims on labels over time ------------------- *)

\* C36 as stated: in every state every label of the community table is the
\* id of a node of the graph.
C36_Original ==
    \A n \in DOMAIN communities : communities[n] \in DOMAIN nodes

\* C36, amended: every key of the community table is a node; when
\* detectCommunities returns, every label is the id of a node; no other call
\* writes a label, and removeNode(id) deletes the entry of id alone, so that a
\* label equal to id stays in the table.
C36_LabelsAsDetected ==
    /\ [](/\ DOMAIN communities \subseteq DOMAIN nodes
          /\ last.op = "detectCommunities" =>
                \A n \in DOMAIN communities : communities[n] \in DOMAIN nodes)
    /\ [][last'.op # "detectCommunities" =>
            /\ DOMAIN communities' = DOMAIN communities \ (DOMAIN nodes \ DOMAIN nodes')
            /\ \A n \in DOMAIN communities' : communities'[n] = communities[n]]_vars

\* removeNode has removed the node whose id labels a node that is left
C36_Witness ==
    /\ last.op = "removeNode"
    /\ \E n \in DOMAIN communities : communities[n] \notin DOMAIN nodes

\* the calls that compute ranks or read
Readers == {"computePageRank", "rankWithGraph", "getTopNodes", "getNeighbors", "getStats"}

\* C37: computePageRank, rankWithGraph, getTopNodes, getNeighbors and
\* getStats leave the community table, the nodes, the edge lists and the
\* reverse index as they are; detectCommunities leaves nodes, edge lists,
\* reverse index, rank table and staleness flag as they are; the community
\* table changes only in detectCommunities and in removeNode, which deletes
\* the entry of the removed id and nothing else.
C37_CommunitiesCallerTriggered ==
    [][/\ last'.op \in Readers => UNCHANGED <<nodes, edges, reverseEdges, communities>>
       /\ last'.op = "detectCommunities" =>
             UNCHANGED <<nodes, edges, reverseEdges, pageRanks, dirty>>
       /\ communities' # communities => last'.op \in {"detectCommunities", "removeNode"}
       /\ last'.op = "removeNode" =>
             communities' = [n \in DOMAIN communities \cap DOMAIN nodes' |-> communities[n]]]_vars

\* rankWithGraph has recomputed the ranks on a graph in which two nodes share
\* a label
C37_Witness ==
    /\ last.op = "rankWithGraph"
    /\ Len(last.events) = 1
    /\ ~dirty
    /\ \E a, b \in DOMAIN communities : a # b /\ communities[a] = communities[b]

\* the step is the first rankWithGraph or getTopNodes call after an addNode,
\* addEdge or removeNode call
FirstReadAfterMutation ==
    /\ last.op \in {"addNode", "addEdge", "removeNode"}
    /\ last'.op \in {"rankWithGraph", "getTopNodes"}

\* the labels of the returned rows are those of the table L: a rankWithGraph
\* row has the label of its entry, or none; a getTopNodes row has the label
\* of its node, or the node's id
RowsCarry(op, rows, L) ==
    \A k \in 1..Len(rows) :
        IF op = "rankWithGraph"
        THEN rows[k].community =
                 (IF rows[k].entry \in DOMAIN L THEN <<L[rows[k].entry]>> ELSE <<>>)
        ELSE rows[k].community = (IF rows[k].id \in DOMAIN L THEN L[rows[k].id] ELSE rows[k].id)

\* C38 as stated: the rows of the first rankWithGraph or getTopNodes call
\* after an addNode, addEdge or removeNode carry the labels of a community
\* detection over the mutated graph.
C38_Original ==
    [][FirstReadAfterMutation =>
          \E r \in detectCommunities(Graph) : RowsCarry(last'.op, last'.ret, r.labels)]_vars

\* C38, amended: the first rankWithGraph or getTopNodes call after an
\* addNode, addEdge or removeNode recomputes the rank table when the
\* staleness flag is set and leaves the flag clear, but leaves the community
\* table as it is: its rows carry the labels stored by the last
\* detectCommunities call, less the entries of removed ids.
C38_OnlyRanksRecomputed ==
    [][FirstReadAfterMutation =>
          /\ communities' = communities
          /\ RowsCarry(last'.op, last'.ret, communities)
          /\ ~dirty'
          /\ dirty => /\ Len(last'.events) = 1
                      /\ last'.events[1].name = "pagerank:computed"
                      /\ DOMAIN nodes # {} => DOMAIN pageRanks' = DOMAIN nodes]_vars

\* rankWithGraph has recomputed the ranks and returned a row labelled with
\* the id of a node that has been removed
C38_Witness ==
    /\ last.op = "rankWithGraph"
    /\ Len(last.events) = 1
    /\ \E k \in 1..Len(last.ret) :
          /\ last.ret[k].community # <<>>
          /\ last.ret[k].community[1] \notin DOMAIN nodes

(* --------------------------- claims on addNode ----------------------- *)

\* entries an existing node is added again with: other attributes than the
\* stored ones
FreshEntries ==
    {[MemoryEntry(id, [category |-> <<"core">>, confidence |-> <<9>>], <<>>, FALSE)
         EXCEPT !.accessCount = 7, !.createdAt = 3] : id \in Ids}

\* C39: addNode(entry) for an id that is a node succeeds whether or not the
\* graph is at capacity: the node has the entry's attributes afterwards, the
\* other nodes, every edge list and every reverse set are what they were, the
\* node count is unchanged and the staleness flag is set.
C39_ReAddOverwritesAttributes ==
    \A entry \in FreshEntries :
        entry.id \in DOMAIN nodes =>
            LET after == addNode(Graph, config, entry)
            IN  /\ after.nodes[entry.id] =
                       [id |-> entry.id, category |-> "core", confidence |-> 9,
                        accessCount |-> 7, createdAt |-> 3]
                /\ \A n \in DOMAIN nodes \ {entry.id} : after.nodes[n] = nodes[n]
                /\ DOMAIN after.nodes = DOMAIN nodes
                /\ after.edges = edges
                /\ after.reverseEdges = reverseEdges
                /\ after.dirty

\* an addNode has returned on a graph at capacity whose two nodes are joined
\* by an edge in each direction and whose rank table was filled before
C39_Witness ==
    /\ last.op = "addNode"
    /\ Cardinality(DOMAIN nodes) = config.maxNodes
    /\ dirty
    /\ DOMAIN pageRanks = DOMAIN nodes
    /\ \E a, b \in DOMAIN nodes : a # b /\ hasEdge(Graph, a, b) /\ hasEdge(Graph, b, a)

\* entries with and without metadata: no confidence, or 0, 0.3 or 1.0; no
\* category, or the empty or another string
MetadataEntries ==
    {MemoryEntry(id, [category |-> c, confidence |-> x], <<>>, FALSE) :
        id \in Ids, c \in {<<>>, <<"">>, <<"core">>}, x \in {<<>>, <<0>>, <<3>>, <<10>>}}

\* C40: after an addNode(entry) that stores the node, the stored confidence
\* is the one supplied in the entry's metadata, 0 included, and 0.5 when none
\* is supplied; the stored category is the one supplied, and "general" when
\* none is supplied.
C40_StoredAsSupplied ==
    \A entry \in MetadataEntries :
        LET after == addNode(Graph, config, entry)
        IN  (entry.id \in DOMAIN after.nodes /\ after # Graph) =>
                /\ after.nodes[entry.id].confidence =
                       (IF entry.metadata.confidence = <<>> THEN 5
                        ELSE entry.metadata.confidence[1])
                /\ after.nodes[entry.id].category =
                       (IF entry.metadata.category = <<>> THEN "general"
                        ELSE entry.metadata.category[1])

====
